---------------------------- MODULE Spec2Model ----------------------------
(***************************************************************************)
(* Model of the structural solver core of motorcycle_dynamics_v3:          *)
(*   backend/app/main.py         simulate (dispatch of one request)        *)
(*   backend/app/simulation.py   simulate_structure (2D frame path)        *)
(*   backend/app/truss_solver.py solve_truss (method of joints)            *)
(*                                                                         *)
(* One behaviour is one analysis call: Init holds the payload that arrived *)
(* at the endpoint, the actions are the steps of the call in program       *)
(* order (one action per loop iteration or straight-line block), and the   *)
(* call ends in pc = "returned" (result holds the SimulationResult) or in  *)
(* pc = "raised" (error holds the exception).                              *)
(*                                                                         *)
(* Arithmetic.  The code computes in IEEE doubles.  The model computes in  *)
(* exact rationals <<numerator, denominator>> and tracks in the variable   *)
(* exact whether every floating-point operation performed so far has an    *)
(* exactly representable result (a dyadic rational).  For a non-singular   *)
(* system the model's solution is the exact one, of which the code's is a  *)
(* rounding.  numpy.linalg.solve raises LinAlgError only when LAPACK's LU  *)
(* factorisation meets a pivot that is exactly 0.0: when all operations    *)
(* were exact this happens precisely for a singular matrix; when some      *)
(* operation was rounded, whether a singular matrix still yields an exact  *)
(* zero pivot depends on the rounding of the BLAS/LAPACK build, and the    *)
(* model leaves that outcome open (variable rounding).                     *)
(***************************************************************************)
EXTENDS Integers, Sequences, FiniteSets, TLC

(***************************************************************************)
(* Rational numbers: <<n, d>> with d > 0 and gcd(|n|, d) = 1.              *)
(***************************************************************************)
RECURSIVE GCD(_, _)
GCD(a, b) == IF b = 0 THEN a ELSE GCD(b, a % b)

IAbs(n) == IF n < 0 THEN -n ELSE n

Norm(n, d) == LET Over(g) == <<n \div g, d \div g>> IN Over(GCD(IAbs(n), d))

R(n) == <<n, 1>>

Zero == <<0, 1>>

One == <<1, 1>>

RNeg(p) == <<-p[1], p[2]>>

RAdd(p, q) ==
    IF p[1] = 0 THEN q
    ELSE IF q[1] = 0 THEN p
    ELSE LET Over(g) == Norm(p[1] * (q[2] \div g) + q[1] * (p[2] \div g),
                             (p[2] \div g) * q[2])
         IN Over(GCD(p[2], q[2]))

RSub(p, q) == RAdd(p, RNeg(q))

RMul(p, q) ==
    IF p[1] = 0 \/ q[1] = 0 THEN Zero
    ELSE LET Over(g1, g2) == <<(p[1] \div g1) * (q[1] \div g2),
                               (p[2] \div g2) * (q[2] \div g1)>>
         IN Over(GCD(IAbs(p[1]), q[2]), GCD(IAbs(q[1]), p[2]))

RDiv(p, q) ==
    IF q[1] > 0 THEN RMul(p, <<q[2], q[1]>>) ELSE RMul(p, <<-q[2], -q[1]>>)

RAbs(p) == <<IAbs(p[1]), p[2]>>

\* p < q and p <= q, by the sign of p - q
RLess(p, q) == RSub(p, q)[1] < 0

RLeq(p, q) == RSub(p, q)[1] <= 0

RECURSIVE IsPow2(_)
IsPow2(d) == IF d = 1 THEN TRUE ELSE IF d % 2 = 1 THEN FALSE ELSE IsPow2(d \div 2)

\* A rational a double holds exactly (all magnitudes here are far below 2^53).
Dyadic(p) == IsPow2(p[2])

RECURSIVE RSum(_, _, _)
\* sum of f[i] for i in lo..hi, accumulated left to right
RSum(f, lo, hi) == IF lo > hi THEN Zero ELSE RAdd(RSum(f, lo, hi - 1), f[hi])


(***************************************************************************)
(* Dense matrices and vectors, indexed from 0 as numpy arrays are.         *)
(***************************************************************************)
\* f and M themselves.  TLC keeps a function constructor unevaluated and
\* evaluates it again at every application; combining it with the empty
\* function makes TLC tabulate it once.
Vec(f) == f @@ <<>>

Mat(M) == [i \in DOMAIN M |-> Vec(M[i])] @@ <<>>

Zeros2(n, m) == Mat([i \in 0..(n - 1) |-> [j \in 0..(m - 1) |-> Zero]])

Zeros1(n) == Vec([i \in 0..(n - 1) |-> Zero])

\* the 6 x 6 array whose rows are the 1-indexed tuples of rows
Mat6(rows) == Mat([i \in 0..5 |-> [j \in 0..5 |-> rows[i + 1][j + 1]]])

Transpose6(X) == Mat([i \in 0..5 |-> [j \in 0..5 |-> X[j][i]]])

\* f[0] + ... + f[5]
Sum6(f) == RAdd(RAdd(RAdd(f[0], f[1]), RAdd(f[2], f[3])), RAdd(f[4], f[5]))

\* X @ Y for 6 x 6 arrays
MatMul6(X, Y) ==
    Mat([i \in 0..5 |-> [j \in 0..5 |->
            Sum6([t \in 0..5 |-> RMul(X[i][t], Y[t][j])])]])

\* X @ v for a 6 x 6 array and a 6-vector
MatVec6(X, v) == Vec([i \in 0..5 |-> Sum6([t \in 0..5 |-> RMul(X[i][t], v[t])])])

(***************************************************************************)
(* math.hypot on integer coordinates.  The inputs of the model are kept to *)
(* geometries whose member lengths are integers (PerfectLength below), so  *)
(* the square root is exact.                                               *)
(***************************************************************************)
\* Variant of Hypot that is never 0: coincident points are 1 apart.
HypotNeverZero(dx, dy) ==
    IF dx = 0 /\ dy = 0 THEN 1
    ELSE CHOOSE r \in 0..((IF dx < 0 THEN -dx ELSE dx) + (IF dy < 0 THEN -dy ELSE dy)) :
            r * r = dx * dx + dy * dy

Hypot(dx, dy) == CHOOSE r \in 0..(IAbs(dx) + IAbs(dy)) : r * r = dx * dx + dy * dy

IsSquare(n) == \E r \in 0..n : r * r = n

(***************************************************************************)
(* simulation.py                                                           *)
(***************************************************************************)
DOF_PER_NODE == 3

node_dof_indices(node_index) ==
    LET base == node_index * DOF_PER_NODE IN <<base, base + 1, base + 2>>

\* Variant of build_node_index_map that, given at least one node, resolves
\* the id no node has to index 0.
build_node_index_map_any(nodes) ==
    [id \in {nodes[i].id : i \in 1..Len(nodes)}
            \cup (IF Len(nodes) > 0 THEN {"zz"} ELSE {}) |->
        IF \E i \in 1..Len(nodes) : nodes[i].id = id
        THEN (CHOOSE i \in 1..Len(nodes) :
                /\ nodes[i].id = id
                /\ \A h \in 1..Len(nodes) : nodes[h].id = id => h <= i) - 1
        ELSE 0]

\* Variant of build_node_index_map in which the first node carrying an id
\* keeps it.
build_node_index_map_first(nodes) ==
    [id \in {nodes[i].id : i \in 1..Len(nodes)} |->
        (CHOOSE i \in 1..Len(nodes) :
            /\ nodes[i].id = id
            /\ \A h \in 1..Len(nodes) : nodes[h].id = id => i <= h) - 1]

\* {n.id: i for i, n in enumerate(nodes)}: a later node overwrites an
\* earlier one with the same id.  Indices are 0-based.
build_node_index_map(nodes) ==
    [id \in {nodes[i].id : i \in 1..Len(nodes)} |->
        (CHOOSE i \in 1..Len(nodes) :
            /\ nodes[i].id = id
            /\ \A h \in 1..Len(nodes) : nodes[h].id = id => h <= i) - 1]

\* The transformation matrix T built from the direction cosines.
TransformT(c, s) ==
    Mat6(<< <<c, RNeg(s), Zero, Zero, Zero, Zero>>,
            <<s, c, Zero, Zero, Zero, Zero>>,
            <<Zero, Zero, One, Zero, Zero, Zero>>,
            <<Zero, Zero, Zero, c, RNeg(s), Zero>>,
            <<Zero, Zero, Zero, s, c, Zero>>,
            <<Zero, Zero, Zero, Zero, Zero, One>> >>)

\* Variant of BendingTerms with 3EI/L in place of 4EI/L.
BendingTermsSoft(EI, L) ==
    <<Norm(12 * EI, L * L * L), Norm(6 * EI, L * L), Norm(3 * EI, L),
      Norm(2 * EI, L)>>

\* 12EI/L3, 6EI/L2, 4EI/L and 2EI/L, the bending entries of the local stiffness
BendingTerms(EI, L) ==
    <<Norm(12 * EI, L * L * L), Norm(6 * EI, L * L), Norm(4 * EI, L),
      Norm(2 * EI, L)>>

\* Variant of LocalStiffness whose row 4 is not the negative of row 1.
LocalStiffnessLopsided(E, A, I, L) ==
    LET k(EA_L, b12, b6, b4, b2) ==
            Mat6(<< <<EA_L, Zero, Zero, RNeg(EA_L), Zero, Zero>>,
                    <<Zero, b12, b6, Zero, RNeg(b12), b6>>,
                    <<Zero, b6, b4, Zero, RNeg(b6), b2>>,
                    <<RNeg(EA_L), Zero, Zero, EA_L, Zero, Zero>>,
                    <<Zero, RNeg(b12), RNeg(b6), Zero, b12, b6>>,
                    <<Zero, b6, b2, Zero, RNeg(b6), b4>> >>)
        Entries(bt) == k(Norm(E * A, L), bt[1], bt[2], bt[3], bt[4])
    IN Entries(<<Norm(12 * E * I, L * L * L), Norm(6 * E * I, L * L),
                 Norm(4 * E * I, L), Norm(2 * E * I, L)>>)

\* The local stiffness k of a frame element of length L (an integer > 0).
LocalStiffness(E, A, I, L) ==
    LET k(EA_L, b12, b6, b4, b2) ==
            Mat6(<< <<EA_L, Zero, Zero, RNeg(EA_L), Zero, Zero>>,
                    <<Zero, b12, b6, Zero, RNeg(b12), b6>>,
                    <<Zero, b6, b4, Zero, RNeg(b6), b2>>,
                    <<RNeg(EA_L), Zero, Zero, EA_L, Zero, Zero>>,
                    <<Zero, RNeg(b12), RNeg(b6), Zero, b12, RNeg(b6)>>,
                    <<Zero, b6, b2, Zero, RNeg(b6), b4>> >>)
        Entries(bt) == k(Norm(E * A, L), bt[1], bt[2], bt[3], bt[4])
    IN Entries(BendingTerms(E * I, L))

\* _element_stiffness: raised is the AssemblyError("Zero length element");
\* otherwise (k_global, L, c, s).  exact: no operation was rounded.
element_stiffness(E, A, I, x1, y1, x2, y2) ==
    LET dx == x2 - x1
        dy == y2 - y1
        Rotated(L, c, s, k, T) ==
            [raised |-> FALSE,
             k_global |-> MatMul6(MatMul6(Transpose6(T), k), T),
             L |-> L, c |-> c, s |-> s,
             exact |-> /\ Dyadic(c) /\ Dyadic(s)
                       /\ \A i \in 0..5 : \A j \in 0..5 : Dyadic(k[i][j])]
        Directed(L, c, s) ==
            Rotated(L, c, s, LocalStiffness(E, A, I, L), TransformT(c, s))
        Measured(L) ==
            IF L <= 0
            THEN [raised |-> TRUE, k_global |-> Zeros2(6, 6), L |-> 0,
                  c |-> Zero, s |-> Zero, exact |-> TRUE]
            ELSE Directed(L, Norm(dx, L), Norm(dy, L))
    IN Measured(Hypot(dx, dy))

(***************************************************************************)
(* numpy.linalg.solve(M, rhs) for an n x n system: LAPACK gesv, that is LU *)
(* with partial pivoting (the first row of largest magnitude in the        *)
(* column) followed by back substitution.  singular: a pivot is 0.         *)
(* exact: the matrix, the multipliers and every updated entry are dyadic.  *)
(***************************************************************************)
PivotRow(M, j, n) ==
    CHOOSE p \in j..(n - 1) :
        /\ \A r \in j..(n - 1) : RLeq(RAbs(M[r][j]), RAbs(M[p][j]))
        /\ \A r \in j..(p - 1) : RLess(RAbs(M[r][j]), RAbs(M[p][j]))

SwapRows(M, j, p) == [M EXCEPT ![j] = M[p], ![p] = M[j]]

RECURSIVE Eliminate(_, _, _, _, _)
\* columns j..n-1 of the factorisation: Pivoted chooses the pivot row p,
\* Swapped exchanges rows j and p, Scaled forms the multipliers of column j
\* and Updated subtracts the multiples of row j from the rows below it
Eliminate(M, rhs, j, n, ex) ==
    LET Updated(mult, Mn, bn) ==
            Eliminate(Mn, bn, j + 1, n,
                      /\ ex
                      /\ \A i \in (j + 1)..(n - 1) :
                            /\ Dyadic(mult[i])
                            /\ Dyadic(bn[i])
                            /\ \A t \in (j + 1)..(n - 1) : Dyadic(Mn[i][t]))
        Scaled(Ms, bs, mult) ==
            Updated(mult,
                    Mat([i \in 0..(n - 1) |->
                           IF i <= j THEN Ms[i]
                           ELSE [t \in 0..(n - 1) |->
                                   IF t <= j THEN Zero
                                   ELSE RSub(Ms[i][t], RMul(mult[i], Ms[j][t]))]]),
                    Vec([i \in 0..(n - 1) |->
                           IF i <= j THEN bs[i]
                           ELSE RSub(bs[i], RMul(mult[i], bs[j]))]))
        Swapped(Ms, bs) ==
            Scaled(Ms, bs,
                   Vec([i \in (j + 1)..(n - 1) |-> RDiv(Ms[i][j], Ms[j][j])]))
        Pivoted(p) ==
            IF M[p][j][1] = 0
            THEN [singular |-> TRUE, M |-> M, rhs |-> rhs, exact |-> ex]
            ELSE Swapped(SwapRows(M, j, p), SwapRows(rhs, j, p))
    IN IF j = n THEN [singular |-> FALSE, M |-> M, rhs |-> rhs, exact |-> ex]
       ELSE Pivoted(PivotRow(M, j, n))

RECURSIVE BackSubstitute(_, _, _, _, _)
\* x[i] for i from n-1 down to 0; x holds the entries already computed
BackSubstitute(M, rhs, i, n, x) ==
    IF i < 0 THEN x
    ELSE BackSubstitute(M, rhs, i - 1, n,
            Vec([x EXCEPT ![i] =
                   RDiv(RSub(rhs[i],
                             RSum([t \in 0..(n - 1) |->
                                     IF t > i THEN RMul(M[i][t], x[t]) ELSE Zero],
                                  0, n - 1)),
                        M[i][i])]))

linalg_solve(M, rhs, n) ==
    LET Factored(lu) ==
            IF lu.singular
            THEN [singular |-> TRUE, exact |-> lu.exact, x |-> Zeros1(n)]
            ELSE [singular |-> FALSE, exact |-> lu.exact,
                  x |-> BackSubstitute(lu.M, lu.rhs, n - 1, n, Zeros1(n))]
    IN Factored(Eliminate(M, rhs, 0, n,
                          /\ \A i \in 0..(n - 1) : Dyadic(rhs[i])
                          /\ \A i \in 0..(n - 1) :
                                \A t \in 0..(n - 1) : Dyadic(M[i][t])))


(***************************************************************************)
(* State of one analysis call.                                             *)
(***************************************************************************)
VARIABLES
    pc,                   \* position of the call in the code
    inp,                  \* the SimulationInput payload (never assigned by the code)
    it,                   \* 1-based position of the running for loop
    node_index,           \* node id -> 0-based index
    K, F,                 \* frame: global stiffness matrix and load vector
    element_descriptors,  \* frame: (beam, dof_map, k_e) per assembled beam
    free_dofs,            \* frame: sorted list of unconstrained DOFs
    U,                    \* frame: full displacement vector
    reaction_dofs,        \* truss: <<node index, axis>> per fixed translation
    A, b,                 \* truss: equilibrium matrix and right-hand side
    member_dirs,          \* truss: <<c, s, L>> per member
    member_nodes,         \* truss: <<i, jn>> per member
    load_map,             \* truss: node id -> <<sum Fx, sum Fy>>
    result,               \* the SimulationResult, once pc = "returned"
    error,                \* the exception, once pc = "raised"
    exact,                \* no floating-point operation so far was rounded
    rounding,             \* how the build's rounding fell in a singular solve
    build,                \* the build: rounded singular solve -> what it gave
    log,                  \* the calls that ran alone and finished: input, outcome
    other,                \* the locals of a second call in flight, or <<>>
    model,                \* frame designer: the FrameModel object
    call,                 \* frame designer: the last FrameModel call and what it gave
    nonneg                \* frame designer: no call so far was given a negative index

frame_vars == <<K, F, element_descriptors, free_dofs, U>>

truss_vars == <<reaction_dofs, A, b, member_dirs, member_nodes, load_map>>

vars == <<pc, inp, it, node_index, K, F, element_descriptors, free_dofs, U,
          reaction_dofs, A, b, member_dirs, member_nodes, load_map,
          result, error, exact, rounding, build, log, other,
          model, call, nonneg>>

model_vars == <<model, call, nonneg>>

NoError == [type |-> "", msg |-> "", id |-> "", m_plus_r |-> 0, two_j |-> 0]

\* Variant of EmptyResult that holds one displacement entry.
EmptyResultPadded ==
    [displacements |-> << [id |-> "", ux |-> <<0, 1>>, uy |-> <<0, 1>>,
                           rotation |-> <<0, 1>>] >>,
     internal_forces |-> <<>>]

EmptyResult == [displacements |-> <<>>, internal_forces |-> <<>>]

\* Variant of Exception that raises every failure with one generic message.
ExceptionCollapsed(type, msg, id, mr, jj) ==
    [type |-> type, msg |-> "Analysis failed", id |-> id, m_plus_r |-> mr,
     two_j |-> jj]

\* raise AssemblyError(msg) / TrussError(msg); id and the two numbers are the
\* values the f-string formats into the message
Exception(type, msg, id, mr, jj) ==
    [type |-> type, msg |-> msg, id |-> id, m_plus_r |-> mr, two_j |-> jj]

\* Variant of NodeResult that drops the node's id.
NodeResultUnnamed(id, ux, uy, rotation) ==
    [id |-> "", ux |-> ux, uy |-> uy, rotation |-> rotation]

NodeResult(id, ux, uy, rotation) ==
    [id |-> id, ux |-> ux, uy |-> uy, rotation |-> rotation]

\* Variant of BeamInternalForce that reports the axial force as the start
\* shear too.
BeamInternalForceSheared(id, axial, shear_start, shear_end, moment_start, moment_end) ==
    [id |-> id, axial |-> axial, shear_start |-> axial,
     shear_end |-> shear_end, moment_start |-> moment_start,
     moment_end |-> moment_end]

BeamInternalForce(id, axial, shear_start, shear_end, moment_start, moment_end) ==
    [id |-> id, axial |-> axial, shear_start |-> shear_start,
     shear_end |-> shear_end, moment_start |-> moment_start,
     moment_end |-> moment_end]

\* entities.py lines 9-14: FrameModel(); selected_node is <<>> for None
FrameModel ==
    [nodes |-> <<>>, beams |-> <<>>, fixtures |-> <<>>, masses |-> <<>>,
     selected_node |-> <<>>]

\* no FrameModel method has been called yet
NoCall == [op |-> "", args |-> <<>>, ret |-> "", value |-> 0]

Raise(e) ==
    /\ pc' = "raised"
    /\ error' = e
    /\ UNCHANGED result

Return(r) ==
    /\ pc' = "returned"
    /\ result' = r
    /\ UNCHANGED error

\* the ascending list of the elements of a finite set of integers
RECURSIVE SortedSeq(_)
SortedSeq(S) ==
    IF S = {} THEN <<>>
    ELSE LET mx == CHOOSE v \in S : \A w \in S : w <= v
         IN Append(SortedSeq(S \ {mx}), mx)

(***************************************************************************)
(* main.py: simulate                                                       *)
(***************************************************************************)
\* Variant of Simulate that rejects an analysis_type it does not recognise.
SimulateStrict ==
    /\ pc = "request"
    /\ UNCHANGED <<build, log, other, model_vars>>
    /\ IF inp.analysis_type \in {"frame", "truss"}
       THEN /\ pc' = inp.analysis_type
            /\ UNCHANGED <<result, error>>
       ELSE Raise(Exception("ValueError", "unknown analysis_type", "", 0, 0))
    /\ UNCHANGED <<inp, it, node_index, frame_vars, truss_vars, exact, rounding>>

\* lines 41-44: 'truss' runs solve_truss, anything else simulate_structure
Simulate ==
    /\ pc = "request"
    /\ UNCHANGED <<build, log, other, model_vars>>
    /\ pc' = IF inp.analysis_type = "truss" THEN "truss" ELSE "frame"
    /\ UNCHANGED <<inp, it, node_index, frame_vars, truss_vars, result, error,
                   exact, rounding>>

(***************************************************************************)
(* simulation.py: simulate_structure                                       *)
(***************************************************************************)
\* Variant of FrameAfterBeams that goes to the solve without the boundary
\* conditions.
FrameAfterBeamsUnpartitioned ==
    IF Len(inp.loads) = 0 THEN "solve" ELSE "assemble_loads"

\* where the call continues once the loop over beams is over
FrameAfterBeams == IF Len(inp.loads) = 0 THEN "boundary" ELSE "assemble_loads"

\* Variant of FrameBegin that goes to the loop over loads first.
FrameBeginLoadsFirst ==
    /\ pc = "frame"
    /\ UNCHANGED <<build, log, other, model_vars>>
    /\ LET n_nodes == Len(inp.nodes)
           ndof    == n_nodes * DOF_PER_NODE
       IN IF n_nodes = 0
          THEN /\ Return(EmptyResult)
               /\ UNCHANGED <<it, node_index, frame_vars>>
          ELSE /\ node_index' = build_node_index_map(inp.nodes)
               /\ K' = Zeros2(ndof, ndof)
               /\ F' = Zeros1(ndof)
               /\ element_descriptors' = <<>>
               /\ it' = 1
               /\ pc' = IF Len(inp.loads) > 0 THEN "assemble_loads"
                        ELSE IF Len(inp.beams) = 0 THEN "boundary"
                        ELSE "assemble_beams"
               /\ UNCHANGED <<free_dofs, U, result, error>>
    /\ UNCHANGED <<inp, truss_vars, exact, rounding>>

\* lines 76-90: the zero-node short circuit, the index map, K and F
FrameBegin ==
    /\ pc = "frame"
    /\ UNCHANGED <<build, log, other, model_vars>>
    /\ LET n_nodes == Len(inp.nodes)
           ndof    == n_nodes * DOF_PER_NODE
       IN IF n_nodes = 0
          THEN /\ Return(EmptyResult)
               /\ UNCHANGED <<it, node_index, frame_vars>>
          ELSE /\ node_index' = build_node_index_map(inp.nodes)
               /\ K' = Zeros2(ndof, ndof)
               /\ F' = Zeros1(ndof)
               /\ element_descriptors' = <<>>
               /\ it' = 1
               /\ pc' = IF Len(inp.beams) = 0 THEN FrameAfterBeams
                        ELSE "assemble_beams"
               /\ UNCHANGED <<free_dofs, U, result, error>>
    /\ UNCHANGED <<inp, truss_vars, exact, rounding>>

\* K[Aidx, Bidx] += k_e[a, bidx] for a, bidx in range(6)
Scatter(Kmat, dof_map, k_e) ==
    Mat([r \in DOMAIN Kmat |-> [c \in DOMAIN Kmat[r] |->
        RAdd(Kmat[r][c],
             Sum6([a \in 0..5 |->
                IF dof_map[a + 1] # r THEN Zero
                ELSE Sum6([bidx \in 0..5 |->
                        IF dof_map[bidx + 1] = c THEN k_e[a][bidx] ELSE Zero])]))]])

\* lines 91-107: one iteration of the loop over beams
FrameAssembleBeam ==
    /\ pc = "assemble_beams"
    /\ UNCHANGED <<build, log, other, model_vars>>
    /\ it <= Len(inp.beams)
    /\ LET beam == inp.beams[it]
       IN IF beam.node_start \notin DOMAIN node_index
             \/ beam.node_end \notin DOMAIN node_index
          THEN /\ Raise(Exception("AssemblyError",
                                  "Beam {b.id} references unknown node",
                                  beam.id, 0, 0))
               /\ UNCHANGED <<it, K, element_descriptors, exact>>
          ELSE LET i  == node_index[beam.node_start]
                   j  == node_index[beam.node_end]
                   ni == inp.nodes[i + 1]
                   nj == inp.nodes[j + 1]
                   dof_map == node_dof_indices(i) \o node_dof_indices(j)
                   Assemble(es) ==
                       IF es.raised
                       THEN /\ Raise(Exception("AssemblyError",
                                               "Zero length element", "", 0, 0))
                            /\ UNCHANGED <<it, K, element_descriptors, exact>>
                       ELSE /\ K' = Scatter(K, dof_map, es.k_global)
                            /\ element_descriptors' =
                                   Append(element_descriptors,
                                          [beam |-> beam, dof_map |-> dof_map,
                                           k_e |-> es.k_global])
                            /\ exact' = (exact /\ es.exact)
                            /\ IF it = Len(inp.beams)
                               THEN pc' = FrameAfterBeams /\ it' = 1
                               ELSE pc' = pc /\ it' = it + 1
                            /\ UNCHANGED <<result, error>>
               IN Assemble(element_stiffness(beam.E, beam.A, beam.I,
                                             ni.x, ni.y, nj.x, nj.y))
    /\ UNCHANGED <<inp, node_index, F, free_dofs, U, truss_vars, rounding>>

\* Variant of NodalLoad that assigns the load's components instead of adding
\* them.
NodalLoadOverwriting(Fv, d, load) ==
    [Fv EXCEPT ![d[1]] = R(load.Fx),
               ![d[2]] = R(load.Fy),
               ![d[3]] = R(load.Moment)]

\* lines 115-117: F[idx*3] += Fx; F[idx*3+1] += Fy; F[idx*3+2] += Moment
NodalLoad(Fv, d, load) ==
    [Fv EXCEPT ![d[1]] = RAdd(@, R(load.Fx)),
               ![d[2]] = RAdd(@, R(load.Fy)),
               ![d[3]] = RAdd(@, R(load.Moment))]

\* lines 110-117: one iteration of the loop over loads
FrameAssembleLoad ==
    /\ pc = "assemble_loads"
    /\ UNCHANGED <<build, log, other, model_vars>>
    /\ it <= Len(inp.loads)
    /\ LET load == inp.loads[it]
       IN IF load.node_id \notin DOMAIN node_index
          THEN /\ Raise(Exception("AssemblyError",
                                  "Load references unknown node {load.node_id}",
                                  load.node_id, 0, 0))
               /\ UNCHANGED <<it, F>>
          ELSE LET idx == node_index[load.node_id]
                   d   == node_dof_indices(idx)
               IN /\ F' = NodalLoad(F, d, load)
                  /\ IF it = Len(inp.loads)
                     THEN pc' = "boundary" /\ it' = 1
                     ELSE pc' = pc /\ it' = it + 1
                  /\ UNCHANGED <<result, error>>
    /\ UNCHANGED <<inp, node_index, K, element_descriptors, free_dofs, U,
                   truss_vars, exact, rounding>>

\* Variant of ConstrainedDofs that leaves every rotation free.
ConstrainedDofsNoRotation(nodes, index) ==
    UNION {IF Len(nodes[h].constraints) > 0
           THEN (IF nodes[h].constraints[1].fix_x
                 THEN {3 * index[nodes[h].id]} ELSE {})
                \cup (IF nodes[h].constraints[1].fix_y
                      THEN {3 * index[nodes[h].id] + 1} ELSE {})
           ELSE {} : h \in 1..Len(nodes)}

\* lines 120-127: the set of constrained DOFs
ConstrainedDofs(nodes, index) ==
    UNION {LET n == nodes[h]
               d == node_dof_indices(index[n.id])
           IN IF Len(n.constraints) > 0
              THEN (IF n.constraints[1].fix_x THEN {d[1]} ELSE {})
                   \cup (IF n.constraints[1].fix_y THEN {d[2]} ELSE {})
                   \cup (IF n.constraints[1].fix_rotation THEN {d[3]} ELSE {})
              ELSE {} : h \in 1..Len(nodes)}

\* lines 119-135: boundary conditions and the fully constrained short circuit
FrameBoundary ==
    /\ pc = "boundary"
    /\ UNCHANGED <<build, log, other, model_vars>>
    /\ LET ndof == Len(inp.nodes) * DOF_PER_NODE
           constrained_dofs == ConstrainedDofs(inp.nodes, node_index)
           all_dofs == 0..(ndof - 1)
           free == SortedSeq(all_dofs \ constrained_dofs)
       IN /\ free_dofs' = free
          /\ IF Len(free) = 0
             THEN Return([displacements |->
                             [h \in 1..Len(inp.nodes) |->
                                 NodeResult(inp.nodes[h].id, Zero, Zero, Zero)],
                          internal_forces |->
                             [h \in 1..Len(inp.beams) |->
                                 BeamInternalForce(inp.beams[h].id, Zero, Zero,
                                                   Zero, Zero, Zero)]])
             ELSE pc' = "solve" /\ UNCHANGED <<result, error>>
    /\ UNCHANGED <<inp, it, node_index, K, F, element_descriptors, U,
                   truss_vars, exact, rounding>>


\* What np.linalg.solve(M, rhs) does in this call: "raise" (LinAlgError),
\* "solved", or "spurious" (a singular system whose rounded factorisation
\* met no exactly zero pivot, so that a vector is returned all the same).
\* how is the build's rounding, consulted only when an operation was rounded.
SolveOutcome(sol, ex, how) ==
    IF ~sol.singular THEN "solved"
    ELSE IF ex /\ sol.exact THEN "raise"
    ELSE IF how = "zero_pivot" THEN "raise" ELSE "spurious"

\* The vector a spurious solve returns: zero for a zero right-hand side
\* (the substitutions only multiply and add zeros), otherwise unrelated to
\* the structure; g stands for its entries.
SpuriousVector(rhs, n, g) ==
    IF \A i \in 0..(n - 1) : rhs[i][1] = 0 THEN Zeros1(n)
    ELSE [i \in 0..(n - 1) |-> g]

SpuriousMagnitude == 1

SpuriousValues == {R(SpuriousMagnitude), RNeg(R(SpuriousMagnitude))}

RoundingChoices(sol, ex) ==
    IF sol.singular /\ ~(ex /\ sol.exact) THEN {"zero_pivot", "tiny_pivot"}
    ELSE {rounding}

\* numpy.linalg.solve is a function of its two arguments: what the build's
\* rounding made of a singular system it makes of the same system again.
\* build remembers the rounded singular solves; g is kept where the vector
\* returned depends on it.
Remembered(M, rhs, sol, ex, how, g) ==
    LET key  == <<M, rhs>>
        kept == <<how, IF how = "tiny_pivot" /\ (\E i \in DOMAIN rhs : rhs[i][1] # 0)
                       THEN g ELSE Zero>>
    IN IF ~(sol.singular /\ ~(ex /\ sol.exact)) THEN UNCHANGED build
       ELSE IF key \in DOMAIN build
            THEN build[key] = kept /\ UNCHANGED build
            ELSE build' = (key :> kept) @@ build

\* Variant of Reconstruct that fills the constrained DOFs with a solved value.
ReconstructFilled(U_f, free, ndof) ==
    [d \in 0..(ndof - 1) |->
        IF \E h \in 1..Len(free) : free[h] = d
        THEN U_f[(CHOOSE h \in 1..Len(free) : free[h] = d) - 1]
        ELSE U_f[0]] @@ <<>>

\* lines 148-151: U = zeros(ndof); U[free_dofs[i]] = U_f[i]
Reconstruct(U_f, free, ndof) ==
    Vec([d \in 0..(ndof - 1) |->
           IF \E h \in 1..Len(free) : free[h] = d
           THEN U_f[(CHOOSE h \in 1..Len(free) : free[h] = d) - 1]
           ELSE Zero])

\* lines 137-151: the reduced system, the solve, the full displacement vector
FrameSolve ==
    /\ pc = "solve"
    /\ UNCHANGED <<log, other, model_vars>>
    /\ LET n == Len(free_dofs)
           Solved(K_ff, F_f, sol) ==
               \E how \in RoundingChoices(sol, exact) :
               \E g \in SpuriousValues :
                   /\ Remembered(K_ff, F_f, sol, exact, how, g)
                   /\ rounding' = how
                   /\ exact' = (exact /\ sol.exact)
                   /\ IF SolveOutcome(sol, exact, how) = "raise"
                      THEN /\ Raise(Exception("AssemblyError",
                                 "Global stiffness matrix is singular. Structure may be unstable or insufficient constraints.",
                                 "", 0, 0))
                           /\ UNCHANGED U
                      ELSE /\ U' = Reconstruct(
                                      IF SolveOutcome(sol, exact, how) = "solved"
                                      THEN sol.x ELSE SpuriousVector(F_f, n, g),
                                      free_dofs, Len(inp.nodes) * DOF_PER_NODE)
                           /\ pc' = "recover"
                           /\ UNCHANGED <<result, error>>
           Reduced(K_ff, F_f) == Solved(K_ff, F_f, linalg_solve(K_ff, F_f, n))
       IN Reduced(Mat([i \in 0..(n - 1) |-> [j \in 0..(n - 1) |->
                         K[free_dofs[i + 1]][free_dofs[j + 1]]]]),
                  Vec([i \in 0..(n - 1) |-> F[free_dofs[i + 1]]]))
    /\ UNCHANGED <<inp, it, node_index, K, F, element_descriptors, free_dofs,
                   truss_vars>>

\* Variant of RecoverBeam that takes the global stiffness for the local one.
RecoverBeamFromGlobal(desc, nodes, index, Uvec) ==
    LET beam == desc.beam
        ni == nodes[index[beam.node_start] + 1]
        nj == nodes[index[beam.node_end] + 1]
        Forces(f_local) ==
            BeamInternalForce(beam.id, f_local[0], f_local[1], RNeg(f_local[4]),
                              f_local[2], RNeg(f_local[5]))
        Local(k_glob, T) ==
            Forces(MatVec6(k_glob,
                           MatVec6(T, [a \in 0..5 |-> Uvec[desc.dof_map[a + 1]]])))
        Recomputed(es) == Local(es.k_global, TransformT(es.c, es.s))
    IN Recomputed(element_stiffness(beam.E, beam.A, beam.I,
                                    ni.x, ni.y, nj.x, nj.y))

\* lines 169-203: the internal forces of one assembled beam
RecoverBeam(desc, nodes, index, Uvec) ==
    LET beam == desc.beam
        ni == nodes[index[beam.node_start] + 1]
        nj == nodes[index[beam.node_end] + 1]
        Forces(f_local) ==
            BeamInternalForce(beam.id, f_local[0], f_local[1], RNeg(f_local[4]),
                              f_local[2], RNeg(f_local[5]))
        Local(k_glob, T) ==
            Forces(MatVec6(MatMul6(MatMul6(T, k_glob), Transpose6(T)),
                           MatVec6(T, [a \in 0..5 |-> Uvec[desc.dof_map[a + 1]]])))
        Recomputed(es) == Local(es.k_global, TransformT(es.c, es.s))
    IN Recomputed(element_stiffness(beam.E, beam.A, beam.I,
                                    ni.x, ni.y, nj.x, nj.y))

\* lines 153-205: node results, internal forces, the result
FrameRecover ==
    /\ pc = "recover"
    /\ UNCHANGED <<build, log, other, model_vars>>
    /\ LET node_results ==
               [h \in 1..Len(inp.nodes) |->
                   LET d == node_dof_indices(node_index[inp.nodes[h].id])
                   IN NodeResult(inp.nodes[h].id, U[d[1]], U[d[2]], U[d[3]])]
           beam_results ==
               [h \in 1..Len(element_descriptors) |->
                   RecoverBeam(element_descriptors[h], inp.nodes, node_index, U)]
       IN Return([displacements |-> node_results,
                  internal_forces |-> beam_results])
    /\ UNCHANGED <<inp, it, node_index, frame_vars, truss_vars, exact, rounding>>


(***************************************************************************)
(* truss_solver.py: solve_truss                                            *)
(***************************************************************************)
\* Variant of NodeReactions in which a fixed rotation counts as a reaction.
NodeReactionsWithRotation(n, i) ==
    (IF Len(n.constraints) > 0 /\ n.constraints[1].fix_x
     THEN << <<i, "x">> >> ELSE <<>>)
    \o (IF Len(n.constraints) > 0 /\ n.constraints[1].fix_y
        THEN << <<i, "y">> >> ELSE <<>>)
    \o (IF Len(n.constraints) > 0 /\ n.constraints[1].fix_rotation
        THEN << <<i, "r">> >> ELSE <<>>)

\* lines 35-39: what node n, of index i, appends to reaction_dofs
NodeReactions(n, i) ==
    (IF Len(n.constraints) > 0 /\ n.constraints[1].fix_x
     THEN << <<i, "x">> >> ELSE <<>>)
    \o (IF Len(n.constraints) > 0 /\ n.constraints[1].fix_y
        THEN << <<i, "y">> >> ELSE <<>>)

RECURSIVE ReactionDofs(_, _)
\* lines 33-39: (node index, axis) of every fixed translation, in scan order
ReactionDofs(nodes, h) ==
    IF h = 0 THEN <<>>
    ELSE ReactionDofs(nodes, h - 1) \o NodeReactions(nodes[h], h - 1)

\* Variant of InitialLoadMap that keeps the sums of the call before when the
\* node ids are the same.
InitialLoadMapCached(nodes) ==
    IF DOMAIN load_map = {nodes[h].id : h \in 1..Len(nodes)} THEN load_map
    ELSE [id \in {nodes[h].id : h \in 1..Len(nodes)} |-> <<Zero, Zero>>]

\* line 74: {n.id: (0.0, 0.0) for n in nodes}
InitialLoadMap(nodes) ==
    [id \in {nodes[h].id : h \in 1..Len(nodes)} |-> <<Zero, Zero>>]

\* where the call continues once the loop over beams is over
TrussAfterBeams == IF Len(inp.loads) = 0 THEN "truss_assemble" ELSE "truss_loads"

\* Variant of TrussBegin that looks at the members' start nodes before the
\* determinacy count.
TrussBeginMembersFirst ==
    /\ pc = "truss"
    /\ UNCHANGED <<build, log, other, model_vars>>
    /\ LET n_nodes == Len(inp.nodes)
           rd == ReactionDofs(inp.nodes, n_nodes)
           m  == Len(inp.beams)
           r  == Len(rd)
           j  == n_nodes
           n_unknowns == m + r
       IN IF n_nodes = 0
          THEN /\ Return(EmptyResult)
               /\ UNCHANGED <<it, node_index, truss_vars>>
          ELSE /\ node_index' = build_node_index_map(inp.nodes)
               /\ reaction_dofs' = rd
               /\ IF \E h \in 1..m :
                        inp.beams[h].node_start \notin
                            {inp.nodes[g].id : g \in 1..n_nodes}
                  THEN /\ Raise(Exception("TrussError",
                              "Beam {beam.id} references unknown node",
                              "", 0, 0))
                       /\ UNCHANGED <<it, A, b, member_dirs, member_nodes,
                                      load_map>>
                  ELSE IF m + r # 2 * j
                  THEN /\ Raise(Exception("TrussError",
                              "Truss not statically determinate: m+r={m+r}, 2j={2*j}",
                              "", m + r, 2 * j))
                       /\ UNCHANGED <<it, A, b, member_dirs, member_nodes,
                                      load_map>>
                  ELSE /\ A' = Zeros2(2 * j, n_unknowns)
                       /\ b' = Zeros1(2 * j)
                       /\ member_dirs' = <<>>
                       /\ member_nodes' = <<>>
                       /\ it' = 1
                       /\ IF m = 0
                          THEN /\ pc' = TrussAfterBeams
                               /\ load_map' = InitialLoadMap(inp.nodes)
                          ELSE /\ pc' = "truss_members"
                               /\ UNCHANGED load_map
                       /\ UNCHANGED <<result, error>>
    /\ UNCHANGED <<inp, frame_vars, exact, rounding>>

\* lines 21-55: the zero-node short circuit, the index map, the reaction
\* DOFs, the determinacy count, A and b
TrussBegin ==
    /\ pc = "truss"
    /\ UNCHANGED <<build, log, other, model_vars>>
    /\ LET n_nodes == Len(inp.nodes)
           rd == ReactionDofs(inp.nodes, n_nodes)
           m  == Len(inp.beams)
           r  == Len(rd)
           j  == n_nodes
           n_unknowns == m + r
       IN IF n_nodes = 0
          THEN /\ Return(EmptyResult)
               /\ UNCHANGED <<it, node_index, truss_vars>>
          ELSE /\ node_index' = build_node_index_map(inp.nodes)
               /\ reaction_dofs' = rd
               /\ IF m + r # 2 * j
                  THEN /\ Raise(Exception("TrussError",
                              "Truss not statically determinate: m+r={m+r}, 2j={2*j}",
                              "", m + r, 2 * j))
                       /\ UNCHANGED <<it, A, b, member_dirs, member_nodes,
                                      load_map>>
                  ELSE /\ A' = Zeros2(2 * j, n_unknowns)
                       /\ b' = Zeros1(2 * j)
                       /\ member_dirs' = <<>>
                       /\ member_nodes' = <<>>
                       /\ it' = 1
                       /\ IF m = 0
                          THEN /\ pc' = TrussAfterBeams
                               /\ load_map' = InitialLoadMap(inp.nodes)
                          ELSE /\ pc' = "truss_members"
                               /\ UNCHANGED load_map
                       /\ UNCHANGED <<result, error>>
    /\ UNCHANGED <<inp, frame_vars, exact, rounding>>

\* lines 56-71: one iteration of the loop over beams
TrussMember ==
    /\ pc = "truss_members"
    /\ UNCHANGED <<build, log, other, model_vars>>
    /\ it <= Len(inp.beams)
    /\ LET beam == inp.beams[it]
       IN IF beam.node_start \notin DOMAIN node_index
             \/ beam.node_end \notin DOMAIN node_index
          THEN /\ Raise(Exception("TrussError",
                                  "Beam {beam.id} references unknown node",
                                  beam.id, 0, 0))
               /\ UNCHANGED <<it, member_dirs, member_nodes, load_map, exact>>
          ELSE LET i  == node_index[beam.node_start]
                   jn == node_index[beam.node_end]
                   n1 == inp.nodes[i + 1]
                   n2 == inp.nodes[jn + 1]
                   dx == n2.x - n1.x
                   dy == n2.y - n1.y
                   L  == Hypot(dx, dy)
               IN IF L <= 0
                  THEN /\ Raise(Exception("TrussError", "Zero-length member",
                                          "", 0, 0))
                       /\ UNCHANGED <<it, member_dirs, member_nodes, load_map,
                                      exact>>
                  ELSE LET c == Norm(dx, L)
                           s == Norm(dy, L)
                       IN /\ member_dirs' = Append(member_dirs, <<c, s, R(L)>>)
                          /\ member_nodes' = Append(member_nodes, <<i, jn>>)
                          /\ exact' = (exact /\ Dyadic(c) /\ Dyadic(s))
                          /\ IF it = Len(inp.beams)
                             THEN /\ pc' = TrussAfterBeams
                                  /\ it' = 1
                                  /\ load_map' = InitialLoadMap(inp.nodes)
                             ELSE /\ pc' = pc
                                  /\ it' = it + 1
                                  /\ UNCHANGED load_map
                          /\ UNCHANGED <<result, error>>
    /\ UNCHANGED <<inp, node_index, frame_vars, reaction_dofs, A, b, rounding>>

\* Variant of LoadSum that adds the moment to the vertical force.
LoadSumWithMoment(px, py, ld) ==
    <<RAdd(px, R(ld.Fx)), RAdd(py, R(ld.Fy + ld.Moment))>>

\* line 79: (px + ld.Fx, py + ld.Fy)
LoadSum(px, py, ld) == <<RAdd(px, R(ld.Fx)), RAdd(py, R(ld.Fy))>>

\* lines 75-79: one iteration of the loop over loads
TrussLoad ==
    /\ pc = "truss_loads"
    /\ UNCHANGED <<build, log, other, model_vars>>
    /\ it <= Len(inp.loads)
    /\ LET ld == inp.loads[it]
       IN IF ld.node_id \notin DOMAIN load_map
          THEN /\ Raise(Exception("TrussError",
                                  "Load references unknown node {ld.node_id}",
                                  ld.node_id, 0, 0))
               /\ UNCHANGED <<it, load_map>>
          ELSE LET px == load_map[ld.node_id][1]
                   py == load_map[ld.node_id][2]
               IN /\ load_map' = [load_map EXCEPT ![ld.node_id] =
                                     LoadSum(px, py, ld)]
                  /\ IF it = Len(inp.loads)
                     THEN pc' = "truss_assemble" /\ it' = 1
                     ELSE pc' = pc /\ it' = it + 1
                  /\ UNCHANGED <<result, error>>
    /\ UNCHANGED <<inp, node_index, frame_vars, reaction_dofs, A, b,
                   member_dirs, member_nodes, exact, rounding>>

\* Variant of MemberEntry that gives the end node the start node's signs.
MemberEntryUnsigned(row, col, mnodes, mdirs) ==
    LET i  == mnodes[col + 1][1]
        jn == mnodes[col + 1][2]
        c  == mdirs[col + 1][1]
        s  == mdirs[col + 1][2]
    IN RAdd(RAdd(IF row = 2 * i THEN c ELSE Zero,
                 IF row = 2 * jn THEN c ELSE Zero),
            RAdd(IF row = 2 * i + 1 THEN s ELSE Zero,
                 IF row = 2 * jn + 1 THEN s ELSE Zero))

\* lines 83-90: the member columns of A (+= and -= accumulate)
MemberEntry(row, col, mnodes, mdirs) ==
    LET i  == mnodes[col + 1][1]
        jn == mnodes[col + 1][2]
        c  == mdirs[col + 1][1]
        s  == mdirs[col + 1][2]
    IN RAdd(RAdd(IF row = 2 * i THEN c ELSE Zero,
                 IF row = 2 * jn THEN RNeg(c) ELSE Zero),
            RAdd(IF row = 2 * i + 1 THEN s ELSE Zero,
                 IF row = 2 * jn + 1 THEN RNeg(s) ELSE Zero))

\* lines 93-98: the reaction columns of A (plain assignments of 1.0)
ReactionEntry(row, r_idx, rd) ==
    LET ni   == rd[r_idx + 1][1]
        axis == rd[r_idx + 1][2]
    IN IF axis = "x"
       THEN (IF row = 2 * ni THEN One ELSE Zero)
       ELSE (IF row = 2 * ni + 1 THEN One ELSE Zero)

\* lines 81-104: the equilibrium matrix and the right-hand side
TrussAssemble ==
    /\ pc = "truss_assemble"
    /\ UNCHANGED <<build, log, other, model_vars>>
    /\ LET m == Len(inp.beams)
           j == Len(inp.nodes)
       IN /\ A' = Mat([row \in 0..(2 * j - 1) |->
                     [col \in DOMAIN A[row] |->
                        IF col < m
                        THEN MemberEntry(row, col, member_nodes, member_dirs)
                        ELSE ReactionEntry(row, col - m, reaction_dofs)]])
          /\ b' = Vec([row \in 0..(2 * j - 1) |->
                     RNeg(load_map[inp.nodes[(row \div 2) + 1].id][(row % 2) + 1])])
    /\ pc' = "truss_solve"
    /\ UNCHANGED <<inp, it, node_index, frame_vars, reaction_dofs, member_dirs,
                   member_nodes, load_map, result, error, exact, rounding>>

\* lines 106-129: the solve and the result
TrussSolve ==
    /\ pc = "truss_solve"
    /\ UNCHANGED <<log, other, model_vars>>
    /\ LET m == Len(inp.beams)
           n == 2 * Len(inp.nodes)
           Forces(x) ==
               Return([displacements |->
                          [h \in 1..Len(inp.nodes) |->
                              NodeResult(inp.nodes[h].id, Zero, Zero, Zero)],
                       internal_forces |->
                          [h \in 1..m |->
                              BeamInternalForce(inp.beams[h].id, x[h - 1],
                                                Zero, Zero, Zero, Zero)]])
           Solved(sol) ==
               \E how \in RoundingChoices(sol, exact) :
               \E g \in SpuriousValues :
                   /\ Remembered(A, b, sol, exact, how, g)
                   /\ rounding' = how
                   /\ exact' = (exact /\ sol.exact)
                   /\ IF SolveOutcome(sol, exact, how) = "raise"
                      THEN Raise(Exception("TrussError",
                              "Singular equilibrium system (unstable or indeterminate)",
                              "", 0, 0))
                      ELSE Forces(IF SolveOutcome(sol, exact, how) = "solved"
                                  THEN sol.x ELSE SpuriousVector(b, n, g))
       IN Solved(linalg_solve(A, b, n))
    /\ UNCHANGED <<inp, it, node_index, frame_vars, truss_vars>>


(***************************************************************************)
(* The payloads.  schemas.py gives the shapes; Optional[NodeConstraint] is *)
(* a sequence of length 0 (None) or 1.  A general family takes every       *)
(* combination of its small sets on up to MaxNodes nodes laid along the x  *)
(* axis; bar, triangle and square families hold the layouts of the tests   *)
(* and a closed frame.                                                     *)
(***************************************************************************)
MaxNodes == 2

MaxLen == 2

MaxBeams == 1

MaxLoads == 1

MaxForce == 3

NodeId(h) == <<"n1", "n2", "n3", "n4">>[h]

BeamId(h) == <<"b1", "b2", "b3", "b4">>[h]

UnknownId == "zz"

NodeConstraint(fx, fy, fr) == [fix_x |-> fx, fix_y |-> fy, fix_rotation |-> fr]

ConstraintChoices ==
    {<<>>} \cup {<<NodeConstraint(fx, fy, fr)>> : fx \in BOOLEAN, fy \in BOOLEAN,
                                                  fr \in BOOLEAN}

NodeInput(id, x, y, constraints) ==
    [id |-> id, x |-> x, y |-> y, constraints |-> constraints]

BeamInput(id, node_start, node_end, E, I, A0) ==
    [id |-> id, node_start |-> node_start, node_end |-> node_end,
     E |-> E, I |-> I, A |-> A0]

LoadInput(node_id, Fx, Fy, Moment) ==
    [node_id |-> node_id, Fx |-> Fx, Fy |-> Fy, Moment |-> Moment]

SimulationInput(nodes, beams, loads, analysis_type) ==
    [nodes |-> nodes, beams |-> beams, loads |-> loads,
     analysis_type |-> analysis_type]

\* <<E, I, A>> of a member
SectionChoices == {<<1, 1, 1>>, <<3, 2, 4>>}

\* 'frame', 'truss', and a string the endpoint does not recognise
AnalysisTypes == {"frame", "truss", "Truss"}

RefIds(n) == {NodeId(h) : h \in 1..n} \cup {UnknownId}

\* General family: up to MaxNodes nodes, the first at the origin and the
\* others on the x axis at 0..MaxLen (0: coincident with the first), every
\* combination of constraints; up to MaxBeams members between any two ids,
\* known or not; up to MaxLoads loads of all three components on any id.
GeneralNodes ==
    UNION {{[h \in 1..n |-> NodeInput(NodeId(h), xs[h], 0, cs[h])] :
              xs \in {f \in [1..n -> 0..MaxLen] : n > 0 => f[1] = 0},
              cs \in [1..n -> ConstraintChoices]} : n \in 0..MaxNodes}

GeneralSection == <<3, 2, 4>>

GeneralBeams(n) ==
    UNION {{[h \in 1..m |-> BeamInput(BeamId(h), ends[h][1], ends[h][2],
                                      GeneralSection[1], GeneralSection[2],
                                      GeneralSection[3])] :
              ends \in [1..m -> RefIds(n) \X RefIds(n)]} : m \in 0..MaxBeams}

GeneralLoads(n) ==
    UNION {{[h \in 1..m |-> LoadInput(at[h], MaxForce, -(MaxForce - 1), 1)] :
              at \in [1..m -> RefIds(n)]} : m \in 0..MaxLoads}

\* Bar family (test_cantilever_end_load, test_axial_tension_force): a fully
\* fixed node at the origin, a free node at (L, 0), one member, one load of
\* a single component on the free node.
BarLoads ==
    UNION {{<<P, 0, 0>>, <<0, P, 0>>, <<0, -P, 0>>} : P \in 1..MaxForce}

BarInput(L, sec, ld, t) ==
    SimulationInput(
        <<NodeInput(NodeId(1), 0, 0, <<NodeConstraint(TRUE, TRUE, TRUE)>>),
          NodeInput(NodeId(2), L, 0, <<>>)>>,
        <<BeamInput(BeamId(1), NodeId(1), NodeId(2), sec[1], sec[2], sec[3])>>,
        <<LoadInput(NodeId(2), ld[1], ld[2], ld[3])>>,
        t)

\* Triangle family (test_triangle_truss_symmetry): A(0,0), B(2a,0), C(a,h)
\* with members AB, AC, BC and at most one vertical load on C.  B held in x
\* only leaves the triangle free to turn about A: the count m + r = 2j
\* passes and the equilibrium matrix is singular.
TriangleShapes == {<<3, 4>>, <<4, 3>>}

TriangleSupportsA ==
    {<<>>, <<NodeConstraint(TRUE, TRUE, FALSE)>>, <<NodeConstraint(TRUE, TRUE, TRUE)>>}

TriangleSupportsB ==
    {<<>>, <<NodeConstraint(FALSE, TRUE, FALSE)>>, <<NodeConstraint(FALSE, TRUE, TRUE)>>,
     <<NodeConstraint(TRUE, FALSE, FALSE)>>}

TriangleLoads ==
    {<<>>} \cup {<<LoadInput(NodeId(3), 0, -P, 0)>> : P \in 1..MaxForce}

TriangleInput(shape, cA, cB, sec, loads, t) ==
    SimulationInput(
        <<NodeInput(NodeId(1), 0, 0, cA),
          NodeInput(NodeId(2), 2 * shape[1], 0, cB),
          NodeInput(NodeId(3), shape[1], shape[2], <<>>)>>,
        <<BeamInput(BeamId(1), NodeId(1), NodeId(2), sec[1], sec[2], sec[3]),
          BeamInput(BeamId(2), NodeId(1), NodeId(3), sec[1], sec[2], sec[3]),
          BeamInput(BeamId(3), NodeId(2), NodeId(3), sec[1], sec[2], sec[3])>>,
        loads, t)

\* Clamped triangle: the triangle as a rigid-jointed frame, A and B fully fixed
Clamped == <<NodeConstraint(TRUE, TRUE, TRUE)>>

\* Square family: the unit square (0,0), (1,0), (1,1), (0,1) as a closed frame
\* of four members, supported at its first two nodes or not at all, with at
\* most one load on its third node.
SquareSupports1 == {<<>>, <<NodeConstraint(TRUE, TRUE, FALSE)>>, Clamped}

SquareSupports2 == {<<>>, Clamped}

SquareLoads ==
    {<<>>, <<LoadInput(NodeId(3), MaxForce, -(MaxForce - 1), 1)>>}

SquareInput(c1, c2, sec, loads) ==
    SimulationInput(
        <<NodeInput(NodeId(1), 0, 0, c1),
          NodeInput(NodeId(2), 1, 0, c2),
          NodeInput(NodeId(3), 1, 1, <<>>),
          NodeInput(NodeId(4), 0, 1, <<>>)>>,
        <<BeamInput(BeamId(1), NodeId(1), NodeId(2), sec[1], sec[2], sec[3]),
          BeamInput(BeamId(2), NodeId(2), NodeId(3), sec[1], sec[2], sec[3]),
          BeamInput(BeamId(3), NodeId(3), NodeId(4), sec[1], sec[2], sec[3]),
          BeamInput(BeamId(4), NodeId(4), NodeId(1), sec[1], sec[2], sec[3])>>,
        loads, "frame")

\* every member's end points, where they resolve, are an integer apart
PerfectLength(p) ==
    \A h \in 1..Len(p.beams) :
        LET index == build_node_index_map(p.nodes)
            bm == p.beams[h]
        IN (bm.node_start \in DOMAIN index /\ bm.node_end \in DOMAIN index) =>
            LET n1 == p.nodes[index[bm.node_start] + 1]
                n2 == p.nodes[index[bm.node_end] + 1]
            IN IsSquare((n2.x - n1.x) * (n2.x - n1.x) + (n2.y - n1.y) * (n2.y - n1.y))

\* the payload that arrived at the endpoint
Payload(p) ==
    \/ \E nodes \in GeneralNodes :
       \E beams \in GeneralBeams(Len(nodes)) :
       \E loads \in GeneralLoads(Len(nodes)) :
       \E t \in AnalysisTypes :
          p = SimulationInput(nodes, beams, loads, t)
    \/ \E L \in 1..MaxLen : \E sec \in SectionChoices : \E ld \in BarLoads :
       \E t \in AnalysisTypes :
          p = BarInput(L, sec, ld, t)
    \/ \E shape \in TriangleShapes :
       \E cA \in TriangleSupportsA : \E cB \in TriangleSupportsB :
       \E sec \in SectionChoices : \E loads \in TriangleLoads :
          p = TriangleInput(shape, cA, cB, sec, loads, "truss")
    \/ \E shape \in TriangleShapes :
       \E sec \in SectionChoices : \E loads \in TriangleLoads :
          p = TriangleInput(shape, Clamped, Clamped, sec, loads, "frame")
    \/ \E c1 \in SquareSupports1 : \E c2 \in SquareSupports2 :
       \E sec \in SectionChoices : \E loads \in SquareLoads :
          p = SquareInput(c1, c2, sec, loads)

Init ==
    /\ Payload(inp)
    /\ PerfectLength(inp)
    /\ pc = "request"
    /\ it = 1
    /\ node_index = <<>>
    /\ K = <<>>
    /\ F = <<>>
    /\ element_descriptors = <<>>
    /\ free_dofs = <<>>
    /\ U = <<>>
    /\ reaction_dofs = <<>>
    /\ A = <<>>
    /\ b = <<>>
    /\ member_dirs = <<>>
    /\ member_nodes = <<>>
    /\ load_map = <<>>
    /\ result = EmptyResult
    /\ error = NoError
    /\ exact = TRUE
    /\ rounding = "unset"
    /\ build = <<>>
    /\ log = <<>>
    /\ other = <<>>
    /\ model = FrameModel
    /\ call = NoCall
    /\ nonneg = TRUE

Next ==
    \/ Simulate
    \/ FrameBegin
    \/ FrameAssembleBeam
    \/ FrameAssembleLoad
    \/ FrameBoundary
    \/ FrameSolve
    \/ FrameRecover
    \/ TrussBegin
    \/ TrussMember
    \/ TrussLoad
    \/ TrussAssemble
    \/ TrussSolve

Spec == Init /\ [][Next]_vars


(***************************************************************************)
(* Several calls.  main.py runs one call of simulate per request; the two  *)
(* core functions keep everything in locals, so a call starts with its     *)
(* names unbound: the model leaves in them what the call before left, and  *)
(* each path must assign a name before it reads it.  Two calls in flight   *)
(* take their steps in any order; each has its own locals.                 *)
(***************************************************************************)
MaxCalls == 3

MaxForkAt == 1

\* a bar with any list of loads
BarWith(loads, t) ==
    SimulationInput(
        <<NodeInput(NodeId(1), 0, 0, <<NodeConstraint(TRUE, TRUE, TRUE)>>),
          NodeInput(NodeId(2), 1, 0, <<>>)>>,
        <<BeamInput(BeamId(1), NodeId(1), NodeId(2), 1, 1, 1)>>,
        loads, t)

\* The payloads of repeated and concurrent calls: a loaded bar as a frame,
\* its load given whole, split in two and split in the other order, and
\* with a load on an unknown node; a 3-4-5 triangle as a truss, pinned at A
\* and on a roller at B, its load given whole and split, then with the
\* roller's rotation fixed and a moment on C; the same triangle held in x
\* only at B, whose singular system is rounded.
CallPayloads ==
    {BarWith(<<LoadInput(NodeId(2), 1, -2, 1)>>, "frame"),
     BarWith(<<LoadInput(NodeId(2), 1, 0, 0), LoadInput(NodeId(2), 0, -2, 1)>>, "frame"),
     BarWith(<<LoadInput(NodeId(2), 0, -2, 1), LoadInput(NodeId(2), 1, 0, 0)>>, "frame"),
     BarWith(<<LoadInput(NodeId(2), 1, -2, 1), LoadInput(UnknownId, 0, 0, 0)>>, "frame"),
     TriangleInput(<<3, 4>>, <<NodeConstraint(TRUE, TRUE, FALSE)>>,
                   <<NodeConstraint(FALSE, TRUE, FALSE)>>, <<1, 1, 1>>,
                   <<LoadInput(NodeId(3), 0, -2, 0)>>, "truss"),
     TriangleInput(<<3, 4>>, <<NodeConstraint(TRUE, TRUE, FALSE)>>,
                   <<NodeConstraint(FALSE, TRUE, FALSE)>>, <<1, 1, 1>>,
                   <<LoadInput(NodeId(3), 0, -1, 0), LoadInput(NodeId(3), 0, -1, 0)>>,
                   "truss"),
     TriangleInput(<<3, 4>>, <<NodeConstraint(TRUE, TRUE, FALSE)>>,
                   <<NodeConstraint(FALSE, TRUE, TRUE)>>, <<1, 1, 1>>,
                   <<LoadInput(NodeId(3), 0, -2, 1)>>, "truss"),
     TriangleInput(<<3, 4>>, <<NodeConstraint(TRUE, TRUE, FALSE)>>,
                   <<NodeConstraint(TRUE, FALSE, FALSE)>>, <<1, 1, 1>>,
                   <<LoadInput(NodeId(3), 0, -2, 0)>>, "truss")}

\* what a call gives its caller: the exception it raised or the result it
\* returned
OutcomeOf(p, r, e) ==
    IF p = "raised" THEN [pc |-> p, error |-> e, result |-> EmptyResult]
    ELSE [pc |-> p, error |-> NoError, result |-> r]

Outcome == OutcomeOf(pc, result, error)

\* the locals of the running call
Locals ==
    [pc |-> pc, inp |-> inp, it |-> it, node_index |-> node_index,
     K |-> K, F |-> F, element_descriptors |-> element_descriptors,
     free_dofs |-> free_dofs, U |-> U, reaction_dofs |-> reaction_dofs,
     A |-> A, b |-> b, member_dirs |-> member_dirs,
     member_nodes |-> member_nodes, load_map |-> load_map,
     result |-> result, error |-> error, exact |-> exact,
     rounding |-> rounding]

\* the locals of a call that has not taken a step
FreshLocals(p) ==
    [pc |-> "request", inp |-> p, it |-> 1, node_index |-> <<>>,
     K |-> <<>>, F |-> <<>>, element_descriptors |-> <<>>,
     free_dofs |-> <<>>, U |-> <<>>, reaction_dofs |-> <<>>,
     A |-> <<>>, b |-> <<>>, member_dirs |-> <<>>,
     member_nodes |-> <<>>, load_map |-> <<>>,
     result |-> EmptyResult, error |-> NoError, exact |-> TRUE,
     rounding |-> "unset"]

\* Variant of Restore that keeps the result in one place for all calls.
RestoreSharedResult(c) ==
    /\ pc' = c.pc /\ inp' = c.inp /\ it' = c.it
    /\ node_index' = c.node_index
    /\ K' = c.K /\ F' = c.F
    /\ element_descriptors' = c.element_descriptors
    /\ free_dofs' = c.free_dofs /\ U' = c.U
    /\ reaction_dofs' = c.reaction_dofs
    /\ A' = c.A /\ b' = c.b
    /\ member_dirs' = c.member_dirs /\ member_nodes' = c.member_nodes
    /\ load_map' = c.load_map
    /\ UNCHANGED result
    /\ error' = c.error
    /\ exact' = c.exact /\ rounding' = c.rounding

\* the call whose locals are c takes the next steps
Restore(c) ==
    /\ pc' = c.pc /\ inp' = c.inp /\ it' = c.it
    /\ node_index' = c.node_index
    /\ K' = c.K /\ F' = c.F
    /\ element_descriptors' = c.element_descriptors
    /\ free_dofs' = c.free_dofs /\ U' = c.U
    /\ reaction_dofs' = c.reaction_dofs
    /\ A' = c.A /\ b' = c.b
    /\ member_dirs' = c.member_dirs /\ member_nodes' = c.member_nodes
    /\ load_map' = c.load_map
    /\ result' = c.result /\ error' = c.error
    /\ exact' = c.exact /\ rounding' = c.rounding

\* a call that ran alone is over and the next request arrives
Call ==
    /\ pc \in {"returned", "raised"}
    /\ other = <<>>
    /\ Len(log) + 1 < MaxCalls
    /\ log' = Append(log, [inp |-> inp, outcome |-> Outcome])
    /\ \E p \in CallPayloads : inp' = p
    /\ pc' = "request"
    /\ exact' = TRUE
    /\ rounding' = "unset"
    /\ UNCHANGED <<it, node_index, frame_vars, truss_vars, result, error,
                   build, other, model_vars>>

\* a second request arrives as a call begins
Fork ==
    /\ pc = "request"
    /\ other = <<>>
    /\ Len(log) \in 1..MaxForkAt
    /\ \E q \in CallPayloads : other' = FreshLocals(q)
    /\ UNCHANGED <<pc, inp, it, node_index, frame_vars, truss_vars, result,
                   error, exact, rounding, build, log, model_vars>>

\* the other call in flight takes the next steps
Switch ==
    /\ other # <<>>
    /\ other' = Locals
    /\ Restore(other)
    /\ UNCHANGED <<build, log, model_vars>>

InitCalls ==
    /\ inp \in CallPayloads
    /\ pc = "request"
    /\ it = 1
    /\ node_index = <<>>
    /\ K = <<>>
    /\ F = <<>>
    /\ element_descriptors = <<>>
    /\ free_dofs = <<>>
    /\ U = <<>>
    /\ reaction_dofs = <<>>
    /\ A = <<>>
    /\ b = <<>>
    /\ member_dirs = <<>>
    /\ member_nodes = <<>>
    /\ load_map = <<>>
    /\ result = EmptyResult
    /\ error = NoError
    /\ exact = TRUE
    /\ rounding = "unset"
    /\ build = <<>>
    /\ log = <<>>
    /\ other = <<>>
    /\ model = FrameModel
    /\ call = NoCall
    /\ nonneg = TRUE

NextCalls ==
    \/ Simulate
    \/ FrameBegin
    \/ FrameAssembleBeam
    \/ FrameAssembleLoad
    \/ FrameBoundary
    \/ FrameSolve
    \/ FrameRecover
    \/ TrussBegin
    \/ TrussMember
    \/ TrussLoad
    \/ TrussAssemble
    \/ TrussSolve
    \/ Call
    \/ Fork
    \/ Switch

SpecCalls == InitCalls /\ [][NextCalls]_vars

(***************************************************************************)
(* frame_design/entities.py: FrameModel, the store of the desktop frame    *)
(* designer.  The lists are sequences, an index i of the code is position  *)
(* i + 1, None is <<>> and an int n is <<n>> in selected_node.  A method   *)
(* gives the object it leaves and what the caller gets: ret is "index"     *)
(* (with the value), "None", "True", "False", or the exception raised.     *)
(* Indices are ints as Python takes them: -1 is the last element of a     *)
(* list, and an ordering comparison with None raises TypeError.            *)
(***************************************************************************)
MaxModelNodes == 3

MaxAttached == 2

MaxPos == 2

\* line 40: value=100
DefaultMass == 100

Gave(m, ret, value) == [model |-> m, ret |-> ret, value |-> value]

\* the position in a list of length n that index idx names, 0 when none
ListPosition(idx, n) ==
    IF idx >= 0 THEN (IF idx < n THEN idx + 1 ELSE 0)
    ELSE (IF n + idx >= 0 THEN n + idx + 1 ELSE 0)

\* a list without its element at position p
RemoveAt(list, p) ==
    [h \in 1..(Len(list) - 1) |-> IF h < p THEN list[h] ELSE list[h + 1]]

\* lines 16-19
add_node(m, pos) ==
    Gave([m EXCEPT !.nodes = Append(@, [pos |-> pos, selected |-> FALSE])],
         "index", Len(m.nodes))

\* lines 21-26
add_beam(m, start_idx, end_idx) ==
    IF start_idx < Len(m.nodes) /\ end_idx < Len(m.nodes)
    THEN Gave([m EXCEPT !.beams = Append(@, [start |-> start_idx, end |-> end_idx])],
              "index", Len(m.beams))
    ELSE Gave(m, "None", 0)

\* Variant of add_fixture that does not look for a fixture already there.
add_fixture_again(m, node_idx) ==
    IF node_idx < Len(m.nodes)
    THEN Gave([m EXCEPT !.fixtures = Append(@, [node |-> node_idx])],
              "index", Len(m.fixtures))
    ELSE Gave(m, "None", 0)

\* lines 28-38
add_fixture(m, node_idx) ==
    IF node_idx < Len(m.nodes)
    THEN IF \E h \in 1..Len(m.fixtures) : m.fixtures[h].node = node_idx
         THEN Gave(m, "None", 0)
         ELSE Gave([m EXCEPT !.fixtures = Append(@, [node |-> node_idx])],
                   "index", Len(m.fixtures))
    ELSE Gave(m, "None", 0)

\* lines 40-50
add_mass(m, node_idx, value) ==
    IF node_idx < Len(m.nodes)
    THEN IF \E h \in 1..Len(m.masses) : m.masses[h].node = node_idx
         THEN Gave(m, "None", 0)
         ELSE Gave([m EXCEPT !.masses = Append(@, [node |-> node_idx, value |-> value])],
                   "index", Len(m.masses))
    ELSE Gave(m, "None", 0)

\* Variant of Adjusted that leaves every index as it was.
AdjustedKept(i, node_idx) == i

\* lines 72-85: an index above node_idx goes down by one
Adjusted(i, node_idx) == IF i > node_idx THEN i - 1 ELSE i

\* lines 52-93
delete_node(m, node_idx) ==
    IF node_idx >= Len(m.nodes) THEN Gave(m, "False", 0)
    ELSE LET KeepBeam(bm) == bm.start # node_idx /\ bm.end # node_idx
             KeepAttached(a) == a.node # node_idx
             beams == SelectSeq(m.beams, KeepBeam)
             fixtures == SelectSeq(m.fixtures, KeepAttached)
             masses == SelectSeq(m.masses, KeepAttached)
             p == ListPosition(node_idx, Len(m.nodes))
         IN IF p = 0
            THEN \* line 70: pop from an empty list
                 Gave([m EXCEPT !.beams = beams, !.fixtures = fixtures,
                                !.masses = masses], "IndexError", 0)
            ELSE LET left ==
                         [m EXCEPT
                            !.nodes = RemoveAt(m.nodes, p),
                            !.beams = [h \in 1..Len(beams) |->
                                         [start |-> Adjusted(beams[h].start, node_idx),
                                          end |-> Adjusted(beams[h].end, node_idx)]],
                            !.fixtures = [h \in 1..Len(fixtures) |->
                                            [node |-> Adjusted(fixtures[h].node, node_idx)]],
                            !.masses = [h \in 1..Len(masses) |->
                                          [masses[h] EXCEPT
                                             !.node = Adjusted(@, node_idx)]]]
                 IN IF m.selected_node = <<node_idx>>
                    THEN Gave([left EXCEPT !.selected_node = <<>>], "True", 0)
                    ELSE IF m.selected_node = <<>>
                    THEN \* line 90: None > node_idx
                         Gave(left, "TypeError", 0)
                    ELSE Gave([left EXCEPT !.selected_node =
                                  <<Adjusted(m.selected_node[1], node_idx)>>],
                              "True", 0)

\* lines 95-101
clear(m) ==
    Gave([nodes |-> <<>>, beams |-> <<>>, fixtures |-> <<>>, masses |-> <<>>,
          selected_node |-> <<>>], "None", 0)

\* Variant of select_node that leaves the other nodes as they are.
select_node_keeping(m, node_idx) ==
    IF node_idx >= Len(m.nodes) THEN Gave(m, "False", 0)
    ELSE LET p == ListPosition(node_idx, Len(m.nodes))
         IN IF p = 0
            THEN Gave(m, "IndexError", 0)
            ELSE Gave([m EXCEPT !.nodes = [m.nodes EXCEPT ![p].selected = TRUE],
                                !.selected_node = <<node_idx>>], "True", 0)

\* lines 117-129
select_node(m, node_idx) ==
    IF node_idx >= Len(m.nodes) THEN Gave(m, "False", 0)
    ELSE LET cleared == [h \in 1..Len(m.nodes) |->
                            [m.nodes[h] EXCEPT !.selected = FALSE]]
             p == ListPosition(node_idx, Len(m.nodes))
         IN IF p = 0
            THEN Gave([m EXCEPT !.nodes = cleared], "IndexError", 0)
            ELSE Gave([m EXCEPT !.nodes = [cleared EXCEPT ![p].selected = TRUE],
                                !.selected_node = <<node_idx>>], "True", 0)

\* lines 131-135
deselect_all_nodes(m) ==
    Gave([m EXCEPT !.nodes = [h \in 1..Len(m.nodes) |->
                                [m.nodes[h] EXCEPT !.selected = FALSE]],
                   !.selected_node = <<>>], "None", 0)

\* the indices a caller passes: the last element, every position up to the
\* largest list, and one past it
Indices == -1..MaxModelNodes

Positions == {<<x, 0>> : x \in 1..MaxPos}

\* the model holds fewer than MaxAttached beams, fixtures and masses in all
Room ==
    Len(model.beams) + Len(model.fixtures) + Len(model.masses) < MaxAttached

analysis_vars == <<pc, inp, it, node_index, frame_vars, truss_vars, result,
                   error, exact, rounding, build, log, other>>

\* the call op(args) gave r
Called(op, args, r) ==
    /\ model' = r.model
    /\ call' = [op |-> op, args |-> args, ret |-> r.ret, value |-> r.value]
    /\ nonneg' = (nonneg /\ \A h \in 1..Len(args) : args[h] >= 0)
    /\ UNCHANGED analysis_vars

AddNode ==
    /\ Len(model.nodes) < MaxModelNodes
    /\ \E pos \in Positions :
          /\ model' = add_node(model, pos).model
          /\ call' = [op |-> "add_node", args |-> <<>>,
                      ret |-> "index", value |-> Len(model.nodes)]
          /\ UNCHANGED nonneg
          /\ UNCHANGED analysis_vars

AddBeam ==
    /\ Room
    /\ \E start_idx \in Indices : \E end_idx \in Indices :
          Called("add_beam", <<start_idx, end_idx>>,
                 add_beam(model, start_idx, end_idx))

AddFixture ==
    /\ Room
    /\ \E node_idx \in Indices :
          Called("add_fixture", <<node_idx>>, add_fixture(model, node_idx))

AddMass ==
    /\ Room
    /\ \E node_idx \in Indices :
          Called("add_mass", <<node_idx>>, add_mass(model, node_idx, DefaultMass))

DeleteNode ==
    \E node_idx \in Indices :
        Called("delete_node", <<node_idx>>, delete_node(model, node_idx))

Clear == Called("clear", <<>>, clear(model))

SelectNode ==
    \E node_idx \in Indices :
        Called("select_node", <<node_idx>>, select_node(model, node_idx))

DeselectAllNodes == Called("deselect_all_nodes", <<>>, deselect_all_nodes(model))

InitModel ==
    /\ inp = SimulationInput(<<>>, <<>>, <<>>, "frame")
    /\ pc = "request"
    /\ it = 1
    /\ node_index = <<>>
    /\ K = <<>>
    /\ F = <<>>
    /\ element_descriptors = <<>>
    /\ free_dofs = <<>>
    /\ U = <<>>
    /\ reaction_dofs = <<>>
    /\ A = <<>>
    /\ b = <<>>
    /\ member_dirs = <<>>
    /\ member_nodes = <<>>
    /\ load_map = <<>>
    /\ result = EmptyResult
    /\ error = NoError
    /\ exact = TRUE
    /\ rounding = "unset"
    /\ build = <<>>
    /\ log = <<>>
    /\ other = <<>>
    /\ model = FrameModel
    /\ call = NoCall
    /\ nonneg = TRUE

NextModel ==
    \/ AddNode
    \/ AddBeam
    \/ AddFixture
    \/ AddMass
    \/ DeleteNode
    \/ Clear
    \/ SelectNode
    \/ DeselectAllNodes

SpecModel == InitModel /\ [][NextModel]_vars

(***************************************************************************)
(* Payloads for the order of the checks: one or two nodes on the x axis,   *)
(* up to two members and two loads on any ids, known or not, so that two   *)
(* members, two loads, or a member and a load can fail in one payload.     *)
(***************************************************************************)
MaxOrderNodes == 2

MaxOrderItems == 2

OrderConstraints ==
    {<<>>, <<NodeConstraint(TRUE, FALSE, FALSE)>>,
     <<NodeConstraint(TRUE, TRUE, FALSE)>>, <<NodeConstraint(TRUE, TRUE, TRUE)>>}

OrderNodes ==
    UNION {{[h \in 1..n |-> NodeInput(NodeId(h), xs[h], 0, cs[h])] :
              xs \in {f \in [1..n -> 0..(MaxOrderNodes - 1)] : f[1] = 0},
              cs \in [1..n -> OrderConstraints]} : n \in 1..MaxOrderNodes}

OrderBeams(n) ==
    UNION {{[h \in 1..m |-> BeamInput(BeamId(h), ends[h][1], ends[h][2],
                                      GeneralSection[1], GeneralSection[2],
                                      GeneralSection[3])] :
              ends \in [1..m -> RefIds(n) \X RefIds(n)]} : m \in 0..MaxOrderItems}

OrderLoads(n) ==
    UNION {{[h \in 1..m |-> LoadInput(at[h], 1, -1, 1)] :
              at \in [1..m -> RefIds(n)]} : m \in 0..MaxOrderItems}

InitOrder ==
    /\ \E nodes \in OrderNodes :
       \E beams \in OrderBeams(Len(nodes)) :
       \E loads \in OrderLoads(Len(nodes)) :
       \E t \in {"frame", "truss"} :
          inp = SimulationInput(nodes, beams, loads, t)
    /\ pc = "request"
    /\ it = 1
    /\ node_index = <<>>
    /\ K = <<>>
    /\ F = <<>>
    /\ element_descriptors = <<>>
    /\ free_dofs = <<>>
    /\ U = <<>>
    /\ reaction_dofs = <<>>
    /\ A = <<>>
    /\ b = <<>>
    /\ member_dirs = <<>>
    /\ member_nodes = <<>>
    /\ load_map = <<>>
    /\ result = EmptyResult
    /\ error = NoError
    /\ exact = TRUE
    /\ rounding = "unset"
    /\ build = <<>>
    /\ log = <<>>
    /\ other = <<>>
    /\ model = FrameModel
    /\ call = NoCall
    /\ nonneg = TRUE

SpecOrder == InitOrder /\ [][Next]_vars

(***************************************************************************)
(* Payloads whose node ids need not be distinct.  schemas.py puts no       *)
(* condition on the ids, and neither path looks for a repeated one.  Up to *)
(* MaxIdNodes nodes stand along the x axis one unit apart, each carrying   *)
(* any of the first ids; up to MaxIdItems members and loads name any of    *)
(* those ids, carried by a node or not.                                    *)
(***************************************************************************)
MaxIdNodes == 3

MaxIdItems == 1

IdConstraints ==
    {<<>>, <<NodeConstraint(FALSE, TRUE, FALSE)>>,
     <<NodeConstraint(TRUE, TRUE, TRUE)>>}

IdNodes ==
    UNION {{[h \in 1..n |-> NodeInput(NodeId(ids[h]), h - 1, 0, cs[h])] :
              ids \in [1..n -> 1..n],
              cs \in [1..n -> IdConstraints]} : n \in 1..MaxIdNodes}

IdBeams(n) ==
    UNION {{[h \in 1..m |-> BeamInput(BeamId(h), NodeId(ends[h][1]),
                                      NodeId(ends[h][2]), 1, 1, 1)] :
              ends \in [1..m -> (1..n) \X (1..n)]} : m \in 0..MaxIdItems}

IdLoads(n) ==
    UNION {{[h \in 1..m |-> LoadInput(NodeId(at[h]), 1, -1, 1)] :
              at \in [1..m -> 1..n]} : m \in 0..MaxIdItems}

InitIds ==
    /\ \E nodes \in IdNodes :
       \E beams \in IdBeams(Len(nodes)) :
       \E loads \in IdLoads(Len(nodes)) :
       \E t \in {"frame", "truss"} :
          inp = SimulationInput(nodes, beams, loads, t)
    /\ pc = "request"
    /\ it = 1
    /\ node_index = <<>>
    /\ K = <<>>
    /\ F = <<>>
    /\ element_descriptors = <<>>
    /\ free_dofs = <<>>
    /\ U = <<>>
    /\ reaction_dofs = <<>>
    /\ A = <<>>
    /\ b = <<>>
    /\ member_dirs = <<>>
    /\ member_nodes = <<>>
    /\ load_map = <<>>
    /\ result = EmptyResult
    /\ error = NoError
    /\ exact = TRUE
    /\ rounding = "unset"
    /\ build = <<>>
    /\ log = <<>>
    /\ other = <<>>
    /\ model = FrameModel
    /\ call = NoCall
    /\ nonneg = TRUE

SpecIds == InitIds /\ [][Next]_vars

(***************************************************************************)
(* Properties.  A call is over at "returned" or "raised"; a numerical      *)
(* equality is one of exact rationals, of which the code's doubles are the *)
(* roundings.                                                              *)
(***************************************************************************)
Done == pc \in {"returned", "raised"}

FramePath == inp.analysis_type # "truss"

FullyFixed(n) ==
    /\ Len(n.constraints) > 0
    /\ n.constraints[1].fix_x
    /\ n.constraints[1].fix_y
    /\ n.constraints[1].fix_rotation

\* two nodes, the first fully fixed at the origin, the second free at (L, 0),
\* one member from the first to the second and one load on the second
BarCase ==
    /\ FramePath
    /\ Len(inp.nodes) = 2 /\ Len(inp.beams) = 1 /\ Len(inp.loads) = 1
    /\ inp.nodes[1].id # inp.nodes[2].id
    /\ inp.nodes[1].x = 0 /\ inp.nodes[1].y = 0 /\ FullyFixed(inp.nodes[1])
    /\ inp.nodes[2].x > 0 /\ inp.nodes[2].y = 0
    /\ Len(inp.nodes[2].constraints) = 0
    /\ inp.beams[1].node_start = inp.nodes[1].id
    /\ inp.beams[1].node_end = inp.nodes[2].id
    /\ inp.loads[1].node_id = inp.nodes[2].id

\* the load of BarCase is a pull Fx = P > 0 along the member
AxialCase ==
    /\ BarCase
    /\ inp.loads[1].Fx > 0 /\ inp.loads[1].Fy = 0 /\ inp.loads[1].Moment = 0

\* C1: a bar fixed at its first node and pulled with Fx = P > 0 at its second
\* node is reported by the frame path with axial force P, which is positive.
C1_AxialTensionPositive ==
    (AxialCase /\ Done) =>
        /\ pc = "returned"
        /\ Len(result.internal_forces) = 1
        /\ result.internal_forces[1].axial = R(inp.loads[1].Fx)
        /\ result.internal_forces[1].axial[1] > 0

\* what the call returns for the pulled bar: the axial force -P, the local
\* end force f[0] at the fixed end
C1_ReportedNegative ==
    /\ AxialCase /\ pc = "returned"
    /\ result.internal_forces[1].axial = R(-inp.loads[1].Fx)

\* the load of BarCase is a transverse tip load Fy = P
CantileverCase ==
    /\ BarCase
    /\ inp.loads[1].Fx = 0 /\ inp.loads[1].Fy # 0 /\ inp.loads[1].Moment = 0

\* C3: a cantilever of length L with section E, I, A under the tip load
\* Fy = P is returned with uy = P L^3 / (3 E I) and rotation = P L^2 / (2 E I)
\* at the tip, and with axial force 0 in the member.
C3_CantileverTip ==
    (CantileverCase /\ Done) =>
        LET L  == inp.nodes[2].x
            P  == inp.loads[1].Fy
            EI == inp.beams[1].E * inp.beams[1].I
        IN /\ pc = "returned"
           /\ Len(result.displacements) = 2
           /\ result.displacements[2].uy = Norm(P * L * L * L, 3 * EI)
           /\ result.displacements[2].rotation = Norm(P * L * L, 2 * EI)
           /\ Len(result.internal_forces) = 1
           /\ result.internal_forces[1].axial = Zero

\* a cantilever longer than 1 under a downward tip load has been solved
C3_Witness ==
    /\ CantileverCase /\ pc = "returned"
    /\ inp.nodes[2].x = MaxLen /\ inp.loads[1].Fy < 0
    /\ result.displacements[2].uy[1] < 0

\* A(0,0) fixed in x and y, B(L,0) fixed in y only, C(L/2,h) free, the
\* members AB, AC, BC and one load on C with Fy < 0, on the truss path
TriangleCase ==
    /\ ~FramePath
    /\ Len(inp.nodes) = 3 /\ Len(inp.beams) = 3 /\ Len(inp.loads) = 1
    /\ \A h, g \in 1..3 : h # g => inp.nodes[h].id # inp.nodes[g].id
    /\ inp.nodes[1].x = 0 /\ inp.nodes[1].y = 0
    /\ Len(inp.nodes[1].constraints) > 0
    /\ inp.nodes[1].constraints[1].fix_x /\ inp.nodes[1].constraints[1].fix_y
    /\ inp.nodes[2].x > 0 /\ inp.nodes[2].y = 0
    /\ Len(inp.nodes[2].constraints) > 0
    /\ ~inp.nodes[2].constraints[1].fix_x /\ inp.nodes[2].constraints[1].fix_y
    /\ 2 * inp.nodes[3].x = inp.nodes[2].x /\ inp.nodes[3].y > 0
    /\ Len(inp.nodes[3].constraints) = 0
    /\ inp.beams[1].node_start = inp.nodes[1].id
    /\ inp.beams[1].node_end = inp.nodes[2].id
    /\ inp.beams[2].node_start = inp.nodes[1].id
    /\ inp.beams[2].node_end = inp.nodes[3].id
    /\ inp.beams[3].node_start = inp.nodes[2].id
    /\ inp.beams[3].node_end = inp.nodes[3].id
    /\ inp.loads[1].node_id = inp.nodes[3].id /\ inp.loads[1].Fy < 0

\* C2: for the triangle truss loaded downwards at its apex C, solve_truss
\* returns strictly positive axial forces for AB, AC and BC.
C2_TriangleAllTension ==
    (TriangleCase /\ Done) =>
        /\ pc = "returned"
        /\ Len(result.internal_forces) = 3
        /\ \A h \in 1..3 : result.internal_forces[h].axial[1] > 0

\* what the call returns for that truss: the chord AB in tension, the two
\* diagonals AC and BC in compression (negative)
C2_DiagonalsNegative ==
    /\ TriangleCase /\ pc = "returned"
    /\ result.internal_forces[1].axial[1] > 0
    /\ result.internal_forces[2].axial[1] < 0
    /\ result.internal_forces[3].axial[1] < 0
    /\ result.internal_forces[2].axial = result.internal_forces[3].axial

\* the payload's own view of its references and lengths
Resolves(id) == \E h \in 1..Len(inp.nodes) : inp.nodes[h].id = id

NodeOf(id) ==
    inp.nodes[CHOOSE h \in 1..Len(inp.nodes) :
                /\ inp.nodes[h].id = id
                /\ \A g \in 1..Len(inp.nodes) : inp.nodes[g].id = id => g <= h]

Dangling(bm) == ~Resolves(bm.node_start) \/ ~Resolves(bm.node_end)

ZeroLength(bm) ==
    /\ ~Dangling(bm)
    /\ NodeOf(bm.node_start).x = NodeOf(bm.node_end).x
    /\ NodeOf(bm.node_start).y = NodeOf(bm.node_end).y

ValidMembers == \A h \in 1..Len(inp.beams) :
                    ~Dangling(inp.beams[h]) /\ ~ZeroLength(inp.beams[h])

ValidLoads == \A h \in 1..Len(inp.loads) : Resolves(inp.loads[h].node_id)

SingularError ==
    /\ pc = "raised"
    /\ error.type = "AssemblyError"
    /\ error.msg = "Global stiffness matrix is singular. Structure may be unstable or insufficient constraints."

\* a frame with at least one node, valid members and loads, and no
\* constrained degree of freedom on any node
UnconstrainedCase ==
    /\ FramePath
    /\ Len(inp.nodes) >= 1
    /\ ValidMembers /\ ValidLoads
    /\ \A h \in 1..Len(inp.nodes) :
          Len(inp.nodes[h].constraints) > 0 =>
              /\ ~inp.nodes[h].constraints[1].fix_x
              /\ ~inp.nodes[h].constraints[1].fix_y
              /\ ~inp.nodes[h].constraints[1].fix_rotation

\* C4: every frame without a constrained degree of freedom fails with the
\* singularity error and never returns displacements.
C4_UnconstrainedRaises ==
    /\ UnconstrainedCase => pc # "returned"
    /\ (UnconstrainedCase /\ Done) => SingularError

\* an unconstrained closed frame whose rounded factorisation met no zero
\* pivot: the call returned displacements
C4_UnconstrainedReturned ==
    /\ UnconstrainedCase /\ pc = "returned"
    /\ rounding = "tiny_pivot"
    /\ Len(inp.nodes) = 4 /\ Len(inp.beams) = 4
    /\ Len(result.displacements) = 4

\* the counts of the determinacy check, taken from the payload
MemberCount == Len(inp.beams)

ReactionCount ==
    Cardinality({h \in 1..Len(inp.nodes) :
                    Len(inp.nodes[h].constraints) > 0
                    /\ inp.nodes[h].constraints[1].fix_x})
    + Cardinality({h \in 1..Len(inp.nodes) :
                      Len(inp.nodes[h].constraints) > 0
                      /\ inp.nodes[h].constraints[1].fix_y})

Determinate == MemberCount + ReactionCount = 2 * Len(inp.nodes)

DeterminacyError ==
    /\ pc = "raised"
    /\ error.type = "TrussError"
    /\ error.msg = "Truss not statically determinate: m+r={m+r}, 2j={2*j}"

\* C5: on the truss path with at least one node, the call fails with the
\* determinacy error whenever m + r # 2j, r counting the set fix_x and fix_y
\* flags only; the error carries m + r and 2j; and the determinacy error is
\* never raised when m + r = 2j.
C5_DeterminacyCheck ==
    (~FramePath /\ Len(inp.nodes) >= 1) =>
        /\ (Done /\ ~Determinate) =>
              /\ DeterminacyError
              /\ error.m_plus_r = MemberCount + ReactionCount
              /\ error.two_j = 2 * Len(inp.nodes)
        /\ Determinate => ~DeterminacyError

\* the determinacy error has been raised for a truss that has a fixed
\* rotation, which would make the count pass if it were counted
C5_Witness ==
    /\ DeterminacyError
    /\ \E h \in 1..Len(inp.nodes) :
          Len(inp.nodes[h].constraints) > 0
          /\ inp.nodes[h].constraints[1].fix_rotation
    /\ error.m_plus_r + 1 = error.two_j

\* C6: with an empty node list both paths return empty displacements and
\* empty internal forces and raise nothing, whatever the members and loads.
C6_ZeroNodesEmptyResult ==
    Len(inp.nodes) = 0 =>
        /\ pc \in {"request", "frame", "truss", "returned"}
        /\ Done => /\ result.displacements = <<>>
                   /\ result.internal_forces = <<>>
                   /\ error = NoError

\* a payload without nodes but with a member and a load has returned
C6_Witness ==
    /\ Len(inp.nodes) = 0 /\ Len(inp.beams) > 0 /\ Len(inp.loads) > 0
    /\ pc = "returned"

\* the DOFs 3i, 3i+1, 3i+2 of the node that carries the id of node h
DofOf(h, axis) == 3 * (CHOOSE g \in 1..Len(inp.nodes) :
                          /\ inp.nodes[g].id = inp.nodes[h].id
                          /\ \A w \in 1..Len(inp.nodes) :
                                inp.nodes[w].id = inp.nodes[h].id => w <= g)
                  - 3 + axis

\* C7: in every result the frame path returns, a displacement whose flag is
\* set on its node is exactly 0; and the full displacement vector the result
\* is read from holds 0 at every constrained DOF.
C7_ConstrainedDofsZero ==
    /\ (FramePath /\ pc = "returned" /\ Len(inp.nodes) > 0) =>
          /\ Len(result.displacements) = Len(inp.nodes)
          /\ \A h \in 1..Len(inp.nodes) :
                Len(inp.nodes[h].constraints) > 0 =>
                  /\ inp.nodes[h].constraints[1].fix_x =>
                        result.displacements[h].ux = Zero
                  /\ inp.nodes[h].constraints[1].fix_y =>
                        result.displacements[h].uy = Zero
                  /\ inp.nodes[h].constraints[1].fix_rotation =>
                        result.displacements[h].rotation = Zero
    /\ pc = "recover" =>
          \A h \in 1..Len(inp.nodes) :
              Len(inp.nodes[h].constraints) > 0 =>
                /\ inp.nodes[h].constraints[1].fix_x => U[DofOf(h, 0)] = Zero
                /\ inp.nodes[h].constraints[1].fix_y => U[DofOf(h, 1)] = Zero
                /\ inp.nodes[h].constraints[1].fix_rotation =>
                      U[DofOf(h, 2)] = Zero

\* a solved frame has returned with a node held in y that has turned, and
\* with a non-zero first solved value
C7_Witness ==
    /\ FramePath /\ pc = "returned" /\ rounding = "unset"
    /\ Len(free_dofs) > 0 /\ U[free_dofs[1]] # Zero
    /\ \E h \in 1..Len(inp.nodes) :
          /\ Len(inp.nodes[h].constraints) > 0
          /\ inp.nodes[h].constraints[1].fix_y
          /\ ~inp.nodes[h].constraints[1].fix_rotation
          /\ result.displacements[h].rotation # Zero

\* a frame with at least one node, every node fully fixed, and valid
\* members and loads
FullyConstrainedCase ==
    /\ FramePath
    /\ Len(inp.nodes) >= 1
    /\ \A h \in 1..Len(inp.nodes) : FullyFixed(inp.nodes[h])
    /\ ValidMembers /\ ValidLoads

\* C8: a fully constrained frame with valid members and loads returns,
\* without error and without reaching the linear solve, zero displacements
\* for every node and zero internal forces for every member.
C8_FullyConstrainedZero ==
    FullyConstrainedCase =>
        /\ pc \notin {"solve", "recover", "raised"}
        /\ rounding = "unset"
        /\ pc = "returned" =>
              /\ Len(result.displacements) = Len(inp.nodes)
              /\ Len(result.internal_forces) = Len(inp.beams)
              /\ \A h \in 1..Len(inp.nodes) :
                    /\ result.displacements[h].ux = Zero
                    /\ result.displacements[h].uy = Zero
                    /\ result.displacements[h].rotation = Zero
              /\ \A h \in 1..Len(inp.beams) :
                    /\ result.internal_forces[h].axial = Zero
                    /\ result.internal_forces[h].shear_start = Zero
                    /\ result.internal_forces[h].shear_end = Zero
                    /\ result.internal_forces[h].moment_start = Zero
                    /\ result.internal_forces[h].moment_end = Zero

\* a fully constrained, loaded frame with a member has returned
C8_Witness ==
    /\ FullyConstrainedCase /\ pc = "returned"
    /\ Len(inp.beams) > 0 /\ Len(inp.loads) > 0

\* some member or some load names an id that no node carries
DanglingCase ==
    /\ Len(inp.nodes) >= 1
    /\ \/ \E h \in 1..Len(inp.beams) : Dangling(inp.beams[h])
       \/ \E h \in 1..Len(inp.loads) : ~Resolves(inp.loads[h].node_id)

\* the reference error, carrying the id of a member or of a load's node
\* that does not resolve
ReferenceError ==
    /\ pc = "raised"
    /\ \/ /\ error.msg \in {"Beam {b.id} references unknown node",
                            "Beam {beam.id} references unknown node"}
          /\ \E h \in 1..Len(inp.beams) :
                Dangling(inp.beams[h]) /\ error.id = inp.beams[h].id
       \/ /\ error.msg = "Load references unknown node {load.node_id}"
          /\ FramePath
          /\ \E h \in 1..Len(inp.loads) :
                ~Resolves(inp.loads[h].node_id)
                /\ error.id = inp.loads[h].node_id
       \/ /\ error.msg = "Load references unknown node {ld.node_id}"
          /\ ~FramePath
          /\ \E h \in 1..Len(inp.loads) :
                ~Resolves(inp.loads[h].node_id)
                /\ error.id = inp.loads[h].node_id

ZeroLengthError ==
    /\ pc = "raised"
    /\ \/ FramePath /\ error.type = "AssemblyError"
                    /\ error.msg = "Zero length element"
       \/ ~FramePath /\ error.type = "TrussError"
                     /\ error.msg = "Zero-length member"

\* C9 as stated: with at least one node, a call whose payload holds a
\* dangling member or load reference fails, on either path, with the
\* reference error that identifies an offending member or load.
C9_ReferenceErrorAlways ==
    (DanglingCase /\ Done) => ReferenceError

\* the members the loop over members stops at
BadMembers == {h \in 1..Len(inp.beams) :
                 Dangling(inp.beams[h]) \/ ZeroLength(inp.beams[h])}

FirstBadMember == CHOOSE h \in BadMembers : \A g \in BadMembers : h <= g

FirstBadLoad ==
    CHOOSE h \in 1..Len(inp.loads) :
        /\ ~Resolves(inp.loads[h].node_id)
        /\ \A g \in 1..(h - 1) : Resolves(inp.loads[g].node_id)

\* C9 amended: such a call always fails and returns no result; the error
\* is the determinacy error when the truss count fails, otherwise the error
\* of the first member that dangles or has length 0 (the reference error
\* naming it if it dangles, the zero-length error if not), otherwise the
\* reference error naming the first dangling load.
C9_ReferenceErrorUnlessPreempted ==
    /\ DanglingCase => pc # "returned"
    /\ (DanglingCase /\ Done) =>
          IF ~FramePath /\ ~Determinate THEN DeterminacyError
          ELSE IF BadMembers # {}
               THEN IF Dangling(inp.beams[FirstBadMember])
                    THEN /\ ReferenceError
                         /\ error.id = inp.beams[FirstBadMember].id
                         /\ error.msg \in {"Beam {b.id} references unknown node",
                                           "Beam {beam.id} references unknown node"}
                    ELSE ZeroLengthError
               ELSE /\ ReferenceError
                    /\ error.id = inp.loads[FirstBadLoad].node_id
                    /\ error.msg \in {"Load references unknown node {load.node_id}",
                                      "Load references unknown node {ld.node_id}"}

\* the reference error of a load has been raised on the frame path, after
\* a member was assembled
C9_Witness ==
    /\ DanglingCase /\ FramePath /\ ReferenceError
    /\ error.msg = "Load references unknown node {load.node_id}"
    /\ Len(inp.beams) > 0

\* every member reference resolves and some member has length 0
ZeroLengthCase ==
    /\ \A h \in 1..Len(inp.beams) : ~Dangling(inp.beams[h])
    /\ \E h \in 1..Len(inp.beams) : ZeroLength(inp.beams[h])

\* C10: when every member reference resolves and some member has length 0
\* (its end points coincide, or its two ends are the same node), the frame
\* path fails with the zero-length error whatever the loads and
\* constraints, the truss path fails with its zero-length error whenever
\* the determinacy count passes, and no result is returned.
C10_ZeroLengthRaises ==
    ZeroLengthCase =>
        /\ pc # "returned"
        /\ (Done /\ (FramePath \/ Determinate)) => ZeroLengthError

\* the truss path has raised its zero-length error for a member from a
\* node to itself
C10_Witness ==
    /\ ZeroLengthCase /\ ~FramePath /\ ZeroLengthError
    /\ inp.beams[1].node_start = inp.beams[1].node_end

(***************************************************************************)
(* Kinds of failure.                                                       *)
(***************************************************************************)
SingularEquilibriumError ==
    /\ pc = "raised"
    /\ error.type = "TrussError"
    /\ error.msg = "Singular equilibrium system (unstable or indeterminate)"

\* the kind a caller reads off an exception: its class and its message
ErrorKind(e) ==
    CASE e.type = "AssemblyError" /\ e.msg = "Beam {b.id} references unknown node"
            -> "reference"
      [] e.type = "AssemblyError"
            /\ e.msg = "Load references unknown node {load.node_id}"
            -> "reference"
      [] e.type = "TrussError" /\ e.msg = "Beam {beam.id} references unknown node"
            -> "reference"
      [] e.type = "TrussError" /\ e.msg = "Load references unknown node {ld.node_id}"
            -> "reference"
      [] e.type = "AssemblyError" /\ e.msg = "Zero length element" -> "degeneracy"
      [] e.type = "TrussError" /\ e.msg = "Zero-length member" -> "degeneracy"
      [] e.type = "AssemblyError"
            /\ e.msg = "Global stiffness matrix is singular. Structure may be unstable or insufficient constraints."
            -> "instability"
      [] e.type = "TrussError"
            /\ e.msg = "Truss not statically determinate: m+r={m+r}, 2j={2*j}"
            -> "determinacy"
      [] e.type = "TrussError"
            /\ e.msg = "Singular equilibrium system (unstable or indeterminate)"
            -> "singular_equilibrium"
      [] OTHER -> "generic"

\* what made the call fail, read from the payload in the order the code
\* examines it
FailureCause ==
    IF ~FramePath /\ ~Determinate THEN "determinacy"
    ELSE IF BadMembers # {}
         THEN (IF Dangling(inp.beams[FirstBadMember]) THEN "reference"
               ELSE "degeneracy")
    ELSE IF ~ValidLoads THEN "reference"
    ELSE IF FramePath THEN "instability" ELSE "singular_equilibrium"

\* C11: every failure reaches the caller as an exception whose class and
\* message identify its kind (reference, degeneracy, frame instability,
\* truss determinacy, truss singular equilibrium), the kind is the one of
\* the condition that made the call fail, and no failure is a generic one.
C11_DistinctFailures ==
    pc = "raised" =>
        /\ ErrorKind(error) # "generic"
        /\ ErrorKind(error) = FailureCause

\* the frame path has raised the instability error for a payload that has
\* a member
C11_Witness ==
    /\ pc = "raised" /\ FramePath /\ Len(inp.beams) > 0
    /\ ErrorKind(error) = "instability"

\* a truss with at least one node, valid members and loads and a passing
\* count, whose call is over and whose assembled equilibrium matrix is
\* singular
SingularTrussCase ==
    /\ ~FramePath /\ Done
    /\ Len(inp.nodes) >= 1
    /\ ValidMembers /\ ValidLoads /\ Determinate
    /\ Eliminate(A, b, 0, 2 * Len(inp.nodes), TRUE).singular

C13_Dispatch ==
    [][pc = "request" =>
          pc' = IF inp.analysis_type = "truss" THEN "truss" ELSE "frame"]_vars

\* a payload whose analysis_type is neither 'frame' nor 'truss' has been
\* solved by the frame path
C13_Witness ==
    /\ inp.analysis_type \notin {"frame", "truss"}
    /\ pc = "returned" /\ Len(free_dofs) > 0
    /\ Len(result.displacements) = Len(inp.nodes)

\* C16: every result of solve_truss holds, for every node of the payload,
\* ux = uy = rotation = 0, and for every member it reports (every member of
\* the payload when there is a node) shear_start = shear_end = moment_start
\* = moment_end = 0; only axial can differ from 0.
C16_TrussZeroFields ==
    (~FramePath /\ pc = "returned") =>
        /\ Len(result.displacements) = Len(inp.nodes)
        /\ \A h \in 1..Len(result.displacements) :
              /\ result.displacements[h].ux = Zero
              /\ result.displacements[h].uy = Zero
              /\ result.displacements[h].rotation = Zero
        /\ Len(inp.nodes) >= 1 => Len(result.internal_forces) = Len(inp.beams)
        /\ \A h \in 1..Len(result.internal_forces) :
              /\ result.internal_forces[h].shear_start = Zero
              /\ result.internal_forces[h].shear_end = Zero
              /\ result.internal_forces[h].moment_start = Zero
              /\ result.internal_forces[h].moment_end = Zero

\* a truss has returned with a member whose axial force is not 0
C16_Witness ==
    /\ ~FramePath /\ pc = "returned"
    /\ \E h \in 1..Len(result.internal_forces) :
          result.internal_forces[h].axial # Zero

\* C17: a result returned for a payload with at least one node holds one
\* displacement per node, in the order of the payload and with the node's
\* id, and one internal force per member, in the order of the payload and
\* with the member's id; on the truss path the axial force of member k is
\* the k-th unknown of the solution of the equilibrium system A x = b.
C17_ResultShape ==
    (pc = "returned" /\ Len(inp.nodes) >= 1) =>
        /\ Len(result.displacements) = Len(inp.nodes)
        /\ \A h \in 1..Len(inp.nodes) :
              result.displacements[h].id = inp.nodes[h].id
        /\ Len(result.internal_forces) = Len(inp.beams)
        /\ \A h \in 1..Len(inp.beams) :
              result.internal_forces[h].id = inp.beams[h].id
        /\ (~FramePath /\ rounding = "unset") =>
              \A h \in 1..Len(inp.beams) :
                  /\ result.internal_forces[h].axial
                        = linalg_solve(A, b, 2 * Len(inp.nodes)).x[h - 1]
                  /\ \A row \in 0..(2 * Len(inp.nodes) - 1) :
                        (\A col \in Len(inp.beams)..(2 * Len(inp.nodes) - 1) :
                            A[row][col] = Zero)
                        => RSum([k \in 0..(Len(inp.beams) - 1) |->
                                    RMul(A[row][k],
                                         result.internal_forces[k + 1].axial)],
                                0, Len(inp.beams) - 1) = b[row]

\* a truss of three members has returned forces that differ from member
\* to member
C17_Witness ==
    /\ ~FramePath /\ pc = "returned" /\ rounding = "unset"
    /\ Len(inp.nodes) = 3 /\ Len(inp.beams) = 3
    /\ result.internal_forces[1].axial # result.internal_forces[2].axial
    /\ result.internal_forces[2].axial # Zero

\* The phase of a frame call: Empty until K and F are complete, Assembled
\* before the boundary conditions, Partitioned before the solve, Solved
\* before the recovery, Recovered once the solved result is returned.
FramePhase(p, u) ==
    CASE p \in {"request", "frame", "assemble_beams", "assemble_loads"} -> "Empty"
      [] p = "boundary" -> "Assembled"
      [] p = "solve" -> "Partitioned"
      [] p = "recover" -> "Solved"
      [] p = "returned" /\ u # <<>> -> "Recovered"
      [] p = "returned" /\ u = <<>> -> "ShortCircuit"
      [] OTHER -> "Failed"

PcRank(p) ==
    CASE p = "request" -> 0
      [] p = "frame" -> 1
      [] p = "assemble_beams" -> 2
      [] p = "assemble_loads" -> 3
      [] OTHER -> 4

PipelineStep ==
    LET from == FramePhase(pc, U)
        to   == FramePhase(pc', U')
    IN /\ <<from, to>> \in
            {<<"Empty", "Empty">>, <<"Empty", "Assembled">>,
             <<"Assembled", "Partitioned">>, <<"Partitioned", "Solved">>,
             <<"Solved", "Recovered">>,
             <<"Empty", "Failed">>, <<"Partitioned", "Failed">>,
             <<"Empty", "ShortCircuit">>, <<"Assembled", "ShortCircuit">>}
       /\ <<from, to>> = <<"Empty", "Empty">> =>
              \/ PcRank(pc') > PcRank(pc)
              \/ pc' = pc /\ it' = it + 1
       /\ to = "Assembled" => Len(element_descriptors') = Len(inp.beams)
       /\ <<from, to>> = <<"Empty", "ShortCircuit">> => Len(inp.nodes) = 0
       /\ <<from, to>> = <<"Assembled", "ShortCircuit">> => free_dofs' = <<>>
       /\ to = "Partitioned" => free_dofs' # <<>>

\* C20: a frame call passes through Empty, Assembled, Partitioned, Solved
\* and Recovered in that order, each phase once; a failure (from Empty or
\* from Partitioned) ends the call; the zero-node short circuit ends it
\* from Empty and the fully constrained one from Assembled, neither
\* entering Solved; nothing follows the end of the call.
C20_FramePipelineOrder == [][FramePath => PipelineStep]_vars

\* a frame call has returned a solved result
C20_Witness ==
    /\ FramePath /\ pc = "returned" /\ U # <<>>
    /\ Len(element_descriptors) > 0 /\ Len(inp.loads) > 0


\* C14: a call is a function of its payload.  Whenever a call that ran
\* alone is over, every earlier call with an identical payload gave the same
\* outcome (the same exception, or a result equal in every field), whatever
\* calls ran in between.
C14_Pure ==
    (Done /\ other = <<>>) =>
        \A k \in 1..Len(log) : log[k].inp = inp => log[k].outcome = Outcome

\* the third call is over, its payload the first call's and not the
\* second's, with a member carrying force
C14_Witness ==
    /\ pc = "returned" /\ other = <<>> /\ Len(log) = 2
    /\ log[1].inp = inp /\ log[2].inp # inp
    /\ \E h \in 1..Len(result.internal_forces) :
          result.internal_forces[h].axial[1] # 0

\* C15: calls in flight together are independent.  With a second call in
\* flight and the steps of the two taken in any order, a call that is over
\* gave the outcome the same payload gave when it ran alone; and no step of
\* a call changes the call's input.
C15_Independent ==
    /\ [](other # <<>> =>
            /\ Done =>
                 \A k \in 1..Len(log) :
                    log[k].inp = inp => log[k].outcome = Outcome
            /\ other.pc \in {"returned", "raised"} =>
                 \A k \in 1..Len(log) :
                    log[k].inp = other.inp =>
                       log[k].outcome = OutcomeOf(other.pc, other.result, other.error))
    /\ [][(other' = other /\ ~Done) => inp' = inp]_vars

\* a frame call returns while a truss call on another payload waits between
\* its assembly and its solve
C15_Witness ==
    /\ other # <<>>
    /\ pc = "returned" /\ FramePath
    /\ other.pc = "truss_solve"
    /\ log[1].inp = inp
    /\ \E h \in 1..Len(result.displacements) : result.displacements[h].ux[1] # 0

\* what is left of a payload once every fix_rotation flag and every Moment
\* is put aside
TranslationalPart(p) ==
    [nodes |-> [h \in 1..Len(p.nodes) |->
                   [id |-> p.nodes[h].id, x |-> p.nodes[h].x, y |-> p.nodes[h].y,
                    held |-> IF Len(p.nodes[h].constraints) = 0 THEN <<>>
                             ELSE <<p.nodes[h].constraints[1].fix_x,
                                    p.nodes[h].constraints[1].fix_y>>]],
     beams |-> p.beams,
     loads |-> [h \in 1..Len(p.loads) |->
                   <<p.loads[h].node_id, p.loads[h].Fx, p.loads[h].Fy>>],
     analysis_type |-> p.analysis_type]

\* C18: the truss path ignores rotational data.  Two truss calls whose
\* payloads differ only in fix_rotation flags and in the Moment of loads give
\* the same outcome: the same exception, or the same result in every field.
C18_TrussIgnoresRotation ==
    (Done /\ other = <<>> /\ ~FramePath) =>
        \A k \in 1..Len(log) :
            TranslationalPart(log[k].inp) = TranslationalPart(inp) =>
                log[k].outcome = Outcome

\* a truss call returns member forces after a call on the same truss with
\* another fix_rotation flag and another Moment
C18_Witness ==
    /\ pc = "returned" /\ other = <<>> /\ ~FramePath
    /\ \E k \in 1..Len(log) :
          /\ log[k].inp # inp
          /\ TranslationalPart(log[k].inp) = TranslationalPart(inp)
          /\ \E h \in 1..Len(inp.nodes) :
                /\ Len(inp.nodes[h].constraints) > 0
                /\ inp.nodes[h].constraints[1].fix_rotation
                   # log[k].inp.nodes[h].constraints[1].fix_rotation
          /\ \E h \in 1..Len(inp.loads) :
                inp.loads[h].Moment # log[k].inp.loads[h].Moment
    /\ \E h \in 1..Len(result.internal_forces) :
          result.internal_forces[h].axial[1] # 0

\* the sums of the components of the first h loads on node id
RECURSIVE LoadTotal(_, _, _)
LoadTotal(loads, id, h) ==
    IF h = 0 THEN <<0, 0, 0>>
    ELSE LET t == LoadTotal(loads, id, h - 1)
         IN IF loads[h].node_id = id
            THEN <<t[1] + loads[h].Fx, t[2] + loads[h].Fy,
                   t[3] + loads[h].Moment>>
            ELSE t

\* per loaded node, the component-wise sums of its loads (Fx and Fy alone
\* for a truss)
MergedLoads(p) ==
    [id \in {p.loads[h].node_id : h \in 1..Len(p.loads)} |->
        LET t == LoadTotal(p.loads, id, Len(p.loads))
        IN IF p.analysis_type = "truss" THEN <<t[1], t[2]>> ELSE t]

\* two payloads alike but for how the loads on a node are split and ordered
SameButLoads(p, q) ==
    /\ p.nodes = q.nodes
    /\ p.beams = q.beams
    /\ p.analysis_type = q.analysis_type
    /\ MergedLoads(p) = MergedLoads(q)

NodePos(id) ==
    (CHOOSE h \in 1..Len(inp.nodes) :
        /\ inp.nodes[h].id = id
        /\ \A g \in 1..Len(inp.nodes) : inp.nodes[g].id = id => g <= h) - 1

\* the row of the equilibrium system that a reaction <<node, axis>> acts on
ReactionRow(rd) == 2 * rd[1] + (IF rd[2] = "x" THEN 0 ELSE 1)

\* the translations the payload holds fixed
HeldTranslations ==
    {<<h - 1, "x">> : h \in {g \in 1..Len(inp.nodes) :
                              Len(inp.nodes[g].constraints) > 0
                              /\ inp.nodes[g].constraints[1].fix_x}}
    \cup {<<h - 1, "y">> : h \in {g \in 1..Len(inp.nodes) :
                                   Len(inp.nodes[g].constraints) > 0
                                   /\ inp.nodes[g].constraints[1].fix_y}}

\* C21: the assembled truss system.  Once solve_truss has assembled A and b,
\* A has 2j rows and m + r columns; the reactions are the fixed translations
\* in node order, x before y; column k of a member from node i to node e
\* with cosines (c, s) holds c, s, -c, -s in rows 2i, 2i+1, 2e, 2e+1 and 0
\* elsewhere; a reaction's column holds 1 in the row of its node and axis
\* and 0 elsewhere; b holds minus the summed Fx and Fy of each node's loads.
C21_TrussAssembly ==
    pc = "truss_solve" =>
        LET m == Len(inp.beams)
            j == Len(inp.nodes)
            r == Len(reaction_dofs)
        IN /\ DOMAIN A = 0..(2 * j - 1)
           /\ \A row \in 0..(2 * j - 1) : DOMAIN A[row] = 0..(m + r - 1)
           /\ {reaction_dofs[q] : q \in 1..r} = HeldTranslations
           /\ \A q1 \in 1..r : \A q2 \in 1..r :
                 q1 < q2 => ReactionRow(reaction_dofs[q1]) < ReactionRow(reaction_dofs[q2])
           /\ \A k \in 1..m :
                 LET i  == NodePos(inp.beams[k].node_start)
                     e  == NodePos(inp.beams[k].node_end)
                     dx == inp.nodes[e + 1].x - inp.nodes[i + 1].x
                     dy == inp.nodes[e + 1].y - inp.nodes[i + 1].y
                     L  == Hypot(dx, dy)
                     c  == Norm(dx, L)
                     s  == Norm(dy, L)
                 IN \A row \in 0..(2 * j - 1) :
                       A[row][k - 1] =
                          IF row = 2 * i THEN c
                          ELSE IF row = 2 * i + 1 THEN s
                          ELSE IF row = 2 * e THEN RNeg(c)
                          ELSE IF row = 2 * e + 1 THEN RNeg(s)
                          ELSE Zero
           /\ \A q \in 1..r : \A row \in 0..(2 * j - 1) :
                 A[row][m + q - 1] =
                    IF row = ReactionRow(reaction_dofs[q]) THEN One ELSE Zero
           /\ \A n \in 0..(j - 1) :
                 LET t == LoadTotal(inp.loads, inp.nodes[n + 1].id, Len(inp.loads))
                 IN /\ b[2 * n] = RNeg(R(t[1]))
                    /\ b[2 * n + 1] = RNeg(R(t[2]))

\* a loaded triangle with three members and three reactions, assembled
C21_Witness ==
    /\ pc = "truss_solve"
    /\ Len(inp.beams) = 3 /\ Len(reaction_dofs) = 3
    /\ \E h \in 1..Len(reaction_dofs) : reaction_dofs[h][2] = "x"
    /\ \E row \in DOMAIN b : b[row][1] # 0
    /\ \E row \in DOMAIN A : A[row][1] \notin {Zero, One, RNeg(One)}

TouchingBeams(m, idx) ==
    {h \in 1..Len(m.beams) : m.beams[h].start = idx \/ m.beams[h].end = idx}

AttachedAt(list, idx) == {h \in 1..Len(list) : list[h].node = idx}

\* C23: delete_node completes.  A call delete_node(idx) with
\* 0 <= idx < len(nodes) removes the node, with every beam, fixture and mass
\* attached to it, and returns True without raising, whether or not a node
\* is selected; with idx >= len(nodes) it returns False and changes nothing.
C23_DeleteNodeCompletes ==
    [][call'.op = "delete_node" =>
          LET idx == call'.args[1]
          IN /\ (0 <= idx /\ idx < Len(model.nodes)) =>
                   /\ call'.ret = "True"
                   /\ model'.nodes = RemoveAt(model.nodes, idx + 1)
                   /\ Len(model'.beams) =
                         Len(model.beams) - Cardinality(TouchingBeams(model, idx))
                   /\ Len(model'.fixtures) =
                         Len(model.fixtures) - Cardinality(AttachedAt(model.fixtures, idx))
                   /\ Len(model'.masses) =
                         Len(model.masses) - Cardinality(AttachedAt(model.masses, idx))
             /\ idx >= Len(model.nodes) =>
                   /\ call'.ret = "False"
                   /\ model' = model]_vars

\* delete_node was given the index of a node while no node was selected,
\* removed the node and raised TypeError
C23_DeleteRaised ==
    /\ call.op = "delete_node"
    /\ call.args[1] >= 0
    /\ call.ret = "TypeError"
    /\ nonneg
    /\ model.selected_node = <<>>

\* the positions of the nodes whose selected flag is set
Flagged == {h \in 1..Len(model.nodes) : model.nodes[h].selected}

\* at most one node is flagged, selected_node is None exactly when none is,
\* and otherwise it is an index that names the flagged node
SelectionConsistent ==
    /\ Cardinality(Flagged) <= 1
    /\ (model.selected_node = <<>>) <=> (Flagged = {})
    /\ model.selected_node # <<>> =>
          ListPosition(model.selected_node[1], Len(model.nodes)) \in Flagged

\* C24 as stated: after any sequence of FrameModel calls the selection is
\* consistent.
C24_SelectionInvariant == SelectionConsistent

\* C24, amended: after any sequence of FrameModel calls given non-negative
\* indices, at most one node has selected = True, selected_node is None
\* exactly when no node has, and otherwise it is the index in [0, len(nodes))
\* of the node that has.
C24_SelectionInvariantNonNegative ==
    nonneg =>
        /\ SelectionConsistent
        /\ model.selected_node # <<>> =>
              /\ model.selected_node[1] >= 0
              /\ model.selected_node[1] < Len(model.nodes)

\* a node below the selected one was deleted and the selection followed it
C24_Witness ==
    /\ nonneg
    /\ call.op = "delete_node" /\ call.ret = "True"
    /\ model.selected_node # <<>>
    /\ call.args[1] <= model.selected_node[1]
    /\ Len(model.nodes) >= 2

\* no two entries of the list refer to the same node
OnePerNode(list) ==
    \A h \in 1..Len(list) : \A g \in 1..Len(list) :
        list[h].node = list[g].node => h = g

\* C25: one fixture and one mass per node.  After any sequence of FrameModel
\* calls given non-negative indices no two fixtures and no two masses refer
\* to the same node, and add_fixture / add_mass on a node that already has
\* one returns None and leaves the model as it was.
C25_OnePerNode ==
    /\ [](nonneg => (OnePerNode(model.fixtures) /\ OnePerNode(model.masses)))
    /\ [][(nonneg' /\ call'.op = "add_fixture"
           /\ AttachedAt(model.fixtures, call'.args[1]) # {})
          => (call'.ret = "None" /\ model' = model)]_vars
    /\ [][(nonneg' /\ call'.op = "add_mass"
           /\ AttachedAt(model.masses, call'.args[1]) # {})
          => (call'.ret = "None" /\ model' = model)]_vars

\* add_fixture was refused on the second node, which carries the fixture
C25_Witness ==
    /\ nonneg
    /\ call.op = "add_fixture" /\ call.ret = "None"
    /\ call.args[1] = 1
    /\ Len(model.nodes) >= 2
    /\ Len(model.fixtures) = 1
    /\ model.fixtures[1].node = 1

\* the first load that names an unknown node is at position h
LoadError(h) ==
    /\ pc = "raised"
    /\ error.msg \in {"Load references unknown node {load.node_id}",
                      "Load references unknown node {ld.node_id}"}
    /\ error.id = inp.loads[h].node_id
    /\ ~Resolves(inp.loads[h].node_id)
    /\ \A g \in 1..(h - 1) : Resolves(inp.loads[g].node_id)

\* the error of the first member that fails its checks: the reference error
\* naming it if it dangles, the zero-length error if not
MemberError(h) ==
    /\ pc = "raised"
    /\ h \in BadMembers
    /\ \A g \in 1..(h - 1) : g \notin BadMembers
    /\ IF Dangling(inp.beams[h])
       THEN /\ error.msg \in {"Beam {b.id} references unknown node",
                              "Beam {beam.id} references unknown node"}
            /\ error.id = inp.beams[h].id
       ELSE ZeroLengthError

\* C26: the order of the checks of solve_truss.  With at least one node the
\* determinacy count comes first: when m + r # 2j no member and no load is
\* looked at and the call fails with the determinacy error, whatever the
\* members and loads are.  When m + r = 2j the members are checked in input
\* order, then the loads: the loop over loads starts only when every member
\* is valid, and a failure is that of the first invalid member, or, when
\* all members are valid, of the first load on an unknown node.
C26_TrussCheckOrder ==
    (~FramePath /\ Len(inp.nodes) >= 1) =>
        /\ ~Determinate =>
              /\ pc \in {"request", "truss", "raised"}
              /\ pc = "raised" => DeterminacyError
        /\ (pc = "raised" /\ ~DeterminacyError /\ ~SingularEquilibriumError) =>
              /\ Determinate
              /\ IF BadMembers # {} THEN MemberError(FirstBadMember)
                 ELSE ~ValidLoads /\ LoadError(FirstBadLoad)
        /\ (Determinate /\ Done /\ (BadMembers # {} \/ ~ValidLoads)) =>
              pc = "raised" /\ ~DeterminacyError /\ ~SingularEquilibriumError
        /\ pc = "truss_members" => \A g \in 1..(it - 1) : g \notin BadMembers
        /\ pc \in {"truss_loads", "truss_assemble", "truss_solve"} =>
              BadMembers = {}
        /\ pc \in {"truss_assemble", "truss_solve"} => ValidLoads

\* a truss whose count passes, whose first member is valid, whose second
\* member is not and whose first load names an unknown node: the member's
\* error is raised
C26_Witness ==
    /\ ~FramePath /\ Determinate /\ pc = "raised"
    /\ Len(inp.beams) = 2 /\ BadMembers = {2}
    /\ Len(inp.loads) >= 1 /\ ~Resolves(inp.loads[1].node_id)
    /\ MemberError(2)

\* C27: the order of the checks of simulate_structure.  With at least one
\* node the members are checked in input order (a member's references, then
\* its length), the loads after all members, and the constraints are looked
\* at only when every member and load is valid.  A failure is that of the
\* first invalid member, or, when all members are valid, of the first load
\* on an unknown node; with an invalid member or load the call never
\* returns the all-zero result of a fully constrained frame and never
\* reaches the solve.
C27_FrameCheckOrder ==
    (FramePath /\ Len(inp.nodes) >= 1) =>
        /\ pc = "assemble_beams" => \A g \in 1..(it - 1) : g \notin BadMembers
        /\ pc = "assemble_loads" =>
              /\ BadMembers = {}
              /\ \A g \in 1..(it - 1) : Resolves(inp.loads[g].node_id)
        /\ pc \in {"boundary", "solve", "recover", "returned"} =>
              BadMembers = {} /\ ValidLoads
        /\ (pc = "raised" /\ BadMembers # {}) => MemberError(FirstBadMember)
        /\ (pc = "raised" /\ BadMembers = {} /\ ~ValidLoads) =>
              LoadError(FirstBadLoad)
        /\ (pc = "raised" /\ BadMembers = {} /\ ValidLoads) => SingularError

\* a frame with every node fully fixed, a first member of length 0, a second
\* member on an unknown node and a load on an unknown node: the zero-length
\* error is raised
C27_Witness ==
    /\ FramePath /\ pc = "raised"
    /\ \A h \in 1..Len(inp.nodes) : FullyFixed(inp.nodes[h])
    /\ Len(inp.beams) = 2
    /\ ZeroLength(inp.beams[1]) /\ Dangling(inp.beams[2])
    /\ Len(inp.loads) >= 1 /\ ~Resolves(inp.loads[1].node_id)
    /\ ZeroLengthError

\* C28: shear equilibrium.  In every result the frame path returns after a
\* solve, each member's shear_end equals its shear_start, whatever the
\* geometry, the constraints and the loads.
C28_ShearEquilibrium ==
    (pc = "returned" /\ FramePath /\ Len(free_dofs) > 0) =>
        \A h \in 1..Len(result.internal_forces) :
            result.internal_forces[h].shear_end
                = result.internal_forces[h].shear_start

\* a solved frame has returned with an inclined member under shear
C28_Witness ==
    /\ pc = "returned" /\ FramePath /\ Len(free_dofs) > 0
    /\ rounding = "unset"
    /\ \E h \in 1..Len(inp.beams) :
          /\ NodeOf(inp.beams[h].node_start).x # NodeOf(inp.beams[h].node_end).x
          /\ NodeOf(inp.beams[h].node_start).y # NodeOf(inp.beams[h].node_end).y
          /\ result.internal_forces[h].shear_start[1] # 0

\* the node ids of the payload are pairwise distinct
DistinctIds ==
    \A g, h \in 1..Len(inp.nodes) : g # h => inp.nodes[g].id # inp.nodes[h].id

\* the id-to-index map of this call has been built
MapBuilt == DOMAIN node_index # {}

\* the map sends every id to the last node carrying it, and with distinct
\* ids node i to index i, one to one onto [0, n)
IdMap ==
    MapBuilt =>
        /\ DOMAIN node_index = {inp.nodes[h].id : h \in 1..Len(inp.nodes)}
        /\ \A id \in DOMAIN node_index : node_index[id] = NodePos(id)
        /\ DistinctIds =>
              /\ \A h \in 1..Len(inp.nodes) : node_index[inp.nodes[h].id] = h - 1
              /\ {node_index[id] : id \in DOMAIN node_index}
                    = 0..(Len(inp.nodes) - 1)
              /\ \A id1, id2 \in DOMAIN node_index :
                    node_index[id1] = node_index[id2] => id1 = id2

\* no failure is one about a repeated id
NoDuplicateError == pc = "raised" => ErrorKind(error) # "generic"

\* every member assembled so far joins the last nodes carrying its two ids
MembersOnLast ==
    /\ \A h \in 1..Len(element_descriptors) :
          element_descriptors[h].dof_map
              = node_dof_indices(NodePos(inp.beams[h].node_start))
                  \o node_dof_indices(NodePos(inp.beams[h].node_end))
    /\ \A h \in 1..Len(member_nodes) :
          member_nodes[h] = <<NodePos(inp.beams[h].node_start),
                              NodePos(inp.beams[h].node_end)>>

\* the loads that act on node h when a load acts on the last node carrying
\* the id it names
LoadsOnLast(h) ==
    IF NodePos(inp.nodes[h].id) = h - 1
    THEN LoadTotal(inp.loads, inp.nodes[h].id, Len(inp.loads))
    ELSE <<0, 0, 0>>

\* the frame path's load vector holds each load on the last node carrying
\* its id
FrameLoadsOnLast ==
    (pc \in {"boundary", "solve", "recover"}) =>
        \A h \in 1..Len(inp.nodes) : \A k \in 1..3 :
            F[node_dof_indices(h - 1)[k]] = R(LoadsOnLast(h)[k])

\* the frame path holds the DOFs of the last node carrying the id of each
\* constrained node
FrameConstraintsOnLast ==
    (pc \in {"solve", "recover"}) =>
        {free_dofs[h] : h \in 1..Len(free_dofs)}
            = (0..(DOF_PER_NODE * Len(inp.nodes) - 1)) \
              UNION {LET n == inp.nodes[h]
                         base == DOF_PER_NODE * NodePos(n.id)
                     IN IF Len(n.constraints) = 0 THEN {}
                        ELSE (IF n.constraints[1].fix_x THEN {base} ELSE {})
                             \cup (IF n.constraints[1].fix_y THEN {base + 1} ELSE {})
                             \cup (IF n.constraints[1].fix_rotation
                                   THEN {base + 2} ELSE {}) :
                     h \in 1..Len(inp.nodes)}

\* the translations node h holds, as reactions on the node of index i
HeldAt(h, i) ==
    (IF Len(inp.nodes[h].constraints) > 0 /\ inp.nodes[h].constraints[1].fix_x
     THEN {<<i, "x">>} ELSE {})
    \cup (IF Len(inp.nodes[h].constraints) > 0 /\ inp.nodes[h].constraints[1].fix_y
          THEN {<<i, "y">>} ELSE {})

TrussPhase == pc \in {"truss_members", "truss_loads", "truss_assemble", "truss_solve"}

\* a returned result has one displacement entry per input node, in order,
\* and on the frame path the entry of a node reads the DOFs of the last node
\* carrying its id
OneEntryPerNode ==
    (pc = "returned") =>
        /\ Len(result.displacements) = Len(inp.nodes)
        /\ \A h \in 1..Len(inp.nodes) :
              result.displacements[h].id = inp.nodes[h].id
        /\ (FramePath /\ Len(free_dofs) > 0) =>
              \A h \in 1..Len(inp.nodes) :
                 LET d == node_dof_indices(NodePos(inp.nodes[h].id))
                 IN /\ result.displacements[h].ux = U[d[1]]
                    /\ result.displacements[h].uy = U[d[2]]
                    /\ result.displacements[h].rotation = U[d[3]]

\* C29 as stated: the id-to-index map sends node i to index i, one to one
\* onto [0, n), when the ids are distinct; a repeated id raises no error of
\* its own, every member, load and constraint naming it resolves to the last
\* node carrying it, on either path, and the result has one displacement
\* entry per input node.
C29_LastNodeForAll ==
    /\ IdMap
    /\ NoDuplicateError
    /\ MembersOnLast
    /\ FrameLoadsOnLast
    /\ FrameConstraintsOnLast
    /\ OneEntryPerNode
    /\ TrussPhase =>
          {reaction_dofs[k] : k \in 1..Len(reaction_dofs)}
              = UNION {HeldAt(h, NodePos(inp.nodes[h].id)) : h \in 1..Len(inp.nodes)}
    /\ (pc = "truss_solve") =>
          \A h \in 1..Len(inp.nodes) : \A k \in 1..2 :
              b[2 * (h - 1) + k - 1] = RNeg(R(LoadsOnLast(h)[k]))

\* C29, amended: as above for the map, the members, the errors and the
\* result; loads and constraints resolve to the last node carrying the id on
\* the frame path, whereas the truss path puts the loads naming an id on
\* every node carrying it and each node's reactions on that node's own rows.
C29_NodeIdResolution ==
    /\ IdMap
    /\ NoDuplicateError
    /\ MembersOnLast
    /\ FrameLoadsOnLast
    /\ FrameConstraintsOnLast
    /\ OneEntryPerNode
    /\ TrussPhase =>
          /\ Len(reaction_dofs) = Cardinality(UNION {HeldAt(h, h - 1) :
                                                        h \in 1..Len(inp.nodes)})
          /\ {reaction_dofs[k] : k \in 1..Len(reaction_dofs)}
                = UNION {HeldAt(h, h - 1) : h \in 1..Len(inp.nodes)}
    /\ (pc = "truss_solve") =>
          \A h \in 1..Len(inp.nodes) : \A k \in 1..2 :
              b[2 * (h - 1) + k - 1]
                  = RNeg(R(LoadTotal(inp.loads, inp.nodes[h].id,
                                     Len(inp.loads))[k]))

\* a truss of three nodes, the first two sharing an id, has returned a
\* result: the member and the load name the shared id, and the first node
\* is held and loaded where it stands
C29_Witness ==
    /\ pc = "returned" /\ ~FramePath
    /\ Len(inp.nodes) = 3
    /\ inp.nodes[1].id = inp.nodes[2].id
    /\ Len(inp.beams) = 1 /\ inp.beams[1].node_start = inp.nodes[1].id
    /\ member_nodes = << <<1, 2>> >>
    /\ Len(inp.loads) = 1 /\ inp.loads[1].node_id = inp.nodes[1].id
    /\ b[0] # Zero /\ b[2] # Zero
    /\ <<0, "y">> \in {reaction_dofs[k] : k \in 1..Len(reaction_dofs)}
    /\ Len(result.displacements) = 3

\* every beam, fixture and mass names a node of the model
InRange(m) ==
    /\ \A h \in 1..Len(m.beams) :
          /\ m.beams[h].start \in 0..(Len(m.nodes) - 1)
          /\ m.beams[h].end \in 0..(Len(m.nodes) - 1)
    /\ \A h \in 1..Len(m.fixtures) : m.fixtures[h].node \in 0..(Len(m.nodes) - 1)
    /\ \A h \in 1..Len(m.masses) : m.masses[h].node \in 0..(Len(m.nodes) - 1)

\* index new of model n names the node that index old named in model m, and
\* is old, less one when old was above idx
SameNode(m, n, old, new, idx) ==
    /\ new = (IF old > idx THEN old - 1 ELSE old)
    /\ n.nodes[new + 1].pos = m.nodes[old + 1].pos

\* across a delete_node(idx) that removed the node, from model m to model n,
\* the beams, fixtures and masses not on the node survive in their order and
\* name the nodes they named
Survive(m, n, idx) ==
    LET KeptBeam(bm) == bm.start # idx /\ bm.end # idx
        KeptAttached(a) == a.node # idx
        beams == SelectSeq(m.beams, KeptBeam)
        fixtures == SelectSeq(m.fixtures, KeptAttached)
        masses == SelectSeq(m.masses, KeptAttached)
    IN /\ Len(n.nodes) = Len(m.nodes) - 1
       /\ Len(n.beams) = Len(beams)
       /\ \A h \in 1..Len(beams) :
             /\ SameNode(m, n, beams[h].start, n.beams[h].start, idx)
             /\ SameNode(m, n, beams[h].end, n.beams[h].end, idx)
       /\ Len(n.fixtures) = Len(fixtures)
       /\ \A h \in 1..Len(fixtures) :
             SameNode(m, n, fixtures[h].node, n.fixtures[h].node, idx)
       /\ Len(n.masses) = Len(masses)
       /\ \A h \in 1..Len(masses) :
             /\ SameNode(m, n, masses[h].node, n.masses[h].node, idx)
             /\ n.masses[h].value = masses[h].value

\* C30: referential integrity of FrameModel.  After any sequence of calls
\* given non-negative indices every beam's start and end and every fixture's
\* and mass's node index is in [0, len(nodes)); across delete_node(idx) each
\* surviving beam, fixture and mass names the same nodes as before, an index
\* above idx being decremented by one; and add_beam with an out-of-range
\* index returns None and changes nothing.
C30_ReferentialIntegrity ==
    /\ [](nonneg => InRange(model))
    /\ [][(nonneg' /\ call'.op = "delete_node")
          => IF call'.args[1] < Len(model.nodes)
             THEN Survive(model, model', call'.args[1])
             ELSE call'.ret = "False" /\ model' = model]_vars
    /\ [][(nonneg' /\ call'.op = "add_beam"
           /\ (call'.args[1] >= Len(model.nodes)
               \/ call'.args[2] >= Len(model.nodes)))
          => (call'.ret = "None" /\ model' = model)]_vars

\* delete_node(0) on three nodes has left the beam that joined the second
\* and the third joining the first and the second
C30_Witness ==
    /\ nonneg
    /\ call.op = "delete_node" /\ call.args = <<0>>
    /\ Len(model.nodes) = 2
    /\ model.nodes[1].pos # model.nodes[2].pos
    /\ model.beams = <<[start |-> 0, end |-> 1]>>

=============================================================================
